---- MODULE Spec2Model ----
(***************************************************************************)
(* Graph-of-Trace monitor: the per-session graph store (got_writer.py),    *)
(* the candidate validator (steps_llm.py) and the relationship analyzer    *)
(* (steps_graph.py).                                                       *)
(*                                                                         *)
(* Strings are TLA+ strings drawn from a small universe.  Python's         *)
(* str.strip and string ordering are given on that universe by `strip' and *)
(* `StrOrder'.  A node is a record [id, title, description, parents,      *)
(* extra], or [id, parents] where only the edges matter; a parent entry    *)
(* is a record [id, relation].                                             *)
(***************************************************************************)
EXTENDS Integers, Sequences, FiniteSets, TLC

\* ------------------------------------------------------------------------
\* Bounds of the model
\* ------------------------------------------------------------------------
MaxParents == 2      \* longest raw parents list of a candidate / input node
MaxBatch == 2        \* longest raw candidate array the generator returns
MaxCalls == 2        \* append calls started per session in one behaviour
NumWriters == 2      \* writer processes
MaxIds == 3          \* ids in an enumeration handed to nextId

\* ------------------------------------------------------------------------
\* Strings
\* ------------------------------------------------------------------------
RootId == "N001"

\* ids a generator may propose that are free in a fresh session
FreshIds == {"N002", "N003", "N004"}

NodeIds == {RootId} \cup FreshIds

\* the universe of raw strings, in ascending Python (code point) order
StrOrder == <<"", "  ", " N002", "N001", "N002", "N003", "N004">>

RawStrings == {StrOrder[i] : i \in 1..Len(StrOrder)}

\* str.strip() on the universe
strip(s) ==
    CASE s = "  " -> ""
      [] s = " N002" -> "N002"
      [] OTHER -> s

\* position of s in StrOrder: s < t in Python iff Rank(s) < Rank(t)
Rank(s) == CHOOSE i \in 1..Len(StrOrder) : StrOrder[i] = s

\* dict.get(k, []) on a dict whose values are lists
Get(d, k) == IF k \in DOMAIN d THEN d[k] ELSE <<>>

\* all sequences over S of length at most n
SeqUpTo(S, n) == UNION {[1..k -> S] : k \in 0..n}

Range(s) == {s[i] : i \in 1..Len(s)}

\* ------------------------------------------------------------------------
\* got_writer._parents_by_id
\* ------------------------------------------------------------------------
\* the ids of the well-formed entries of a parents list, stripped
ParentIdsOf(parents) ==
    LET F[i \in 0..Len(parents)] ==
            IF i = 0 THEN <<>>
            ELSE IF strip(parents[i].id) # ""
                 THEN Append(F[i - 1], strip(parents[i].id))
                 ELSE F[i - 1]
    IN F[Len(parents)]

\* later nodes overwrite earlier ones with the same id (dict assignment)
_parents_by_id(nodes) ==
    LET F[i \in 0..Len(nodes)] ==
            IF i = 0 THEN <<>>
            ELSE IF strip(nodes[i].id) = "" THEN F[i - 1]
            ELSE [k \in (DOMAIN F[i - 1]) \cup {strip(nodes[i].id)} |->
                    IF k = strip(nodes[i].id) THEN ParentIdsOf(nodes[i].parents)
                    ELSE F[i - 1][k]]
    IN F[Len(nodes)]

\* ------------------------------------------------------------------------
\* got_writer._is_reachable_parent
\* ------------------------------------------------------------------------
\* every parent is pushed, seen before or not
UnseenAlways(nxt, seen) == TRUE

\* line 51
Unseen(nxt, seen) == nxt \notin seen

\* the for loop over the parents of cur: [hit, seen, stack]
RECURSIVE ReachFor(_, _, _, _, _)
ReachFor(nbrs, i, target_id, seen, stack) ==
    IF i > Len(nbrs) THEN [hit |-> FALSE, seen |-> seen, stack |-> stack]
    ELSE IF nbrs[i] = target_id THEN [hit |-> TRUE, seen |-> seen, stack |-> stack]
    ELSE IF Unseen(nbrs[i], seen)
         THEN ReachFor(nbrs, i + 1, target_id, seen \cup {nbrs[i]}, Append(stack, nbrs[i]))
         ELSE ReachFor(nbrs, i + 1, target_id, seen, stack)

\* the ids of a map: its keys and the ids its lists name
MapIds(parents_by_id) ==
    (DOMAIN parents_by_id) \cup UNION {Range(parents_by_id[k]) : k \in DOMAIN parents_by_id}

\* iterations of the while loop the model follows before giving up
ReachFuel(parents_by_id) == Cardinality(MapIds(parents_by_id)) + 2

\* the while loop, stack.pop() taking the last element:
\* [hit, popped, finished], popped the ids taken from the stack in order
RECURSIVE ReachWhile(_, _, _, _, _, _)
ReachWhile(stack, seen, target_id, parents_by_id, popped, fuel) ==
    IF stack = <<>> THEN [hit |-> FALSE, popped |-> popped, finished |-> TRUE]
    ELSE IF fuel = 0 THEN [hit |-> FALSE, popped |-> popped, finished |-> FALSE]
    ELSE LET cur == stack[Len(stack)]
             rest == SubSeq(stack, 1, Len(stack) - 1)
             r == ReachFor(Get(parents_by_id, cur), 1, target_id, seen, rest)
         IN IF r.hit
            THEN [hit |-> TRUE, popped |-> Append(popped, cur), finished |-> TRUE]
            ELSE ReachWhile(r.stack, r.seen, target_id, parents_by_id,
                            Append(popped, cur), fuel - 1)

\* lines 42-54 with what the loop did: [hit, popped, finished]
ReachRun(start_id, target_id, parents_by_id) ==
    IF start_id = target_id
    THEN [hit |-> TRUE, popped |-> <<>>, finished |-> TRUE]
    ELSE ReachWhile(<<start_id>>, {start_id}, target_id, parents_by_id, <<>>,
                    ReachFuel(parents_by_id))

_is_reachable_parent(start_id, target_id, parents_by_id) ==
    ReachRun(start_id, target_id, parents_by_id).hit

\* ------------------------------------------------------------------------
\* got_writer._dedupe_redundant_parents
\* ------------------------------------------------------------------------
\* of the entries of one id the last is kept, at the place of the first
DedupeByIdKeepLast(parents) ==
    LET F[i \in 0..Len(parents)] ==
            IF i = 0 THEN [unique |-> <<>>, seen |-> {}, removed |-> 0]
            ELSE LET acc == F[i - 1]
                     pid == strip(parents[i].id)
                 IN IF pid = "" THEN acc
                    ELSE IF pid \in acc.seen
                         THEN [unique |-> [k \in 1..Len(acc.unique) |->
                                              IF acc.unique[k].id = pid
                                              THEN [parents[i] EXCEPT !.id = pid]
                                              ELSE acc.unique[k]],
                               seen |-> acc.seen,
                               removed |-> acc.removed + 1]
                         ELSE [unique |-> Append(acc.unique, [parents[i] EXCEPT !.id = pid]),
                               seen |-> acc.seen \cup {pid},
                               removed |-> acc.removed]
    IN F[Len(parents)]

\* step 1, de-duplication by id keeping the first occurrence:
\* [unique, seen, removed]
DedupeById(parents) ==
    LET F[i \in 0..Len(parents)] ==
            IF i = 0 THEN [unique |-> <<>>, seen |-> {}, removed |-> 0]
            ELSE LET acc == F[i - 1]
                     pid == strip(parents[i].id)
                 IN IF pid = "" THEN acc
                    ELSE IF pid \in acc.seen
                         THEN [acc EXCEPT !.removed = @ + 1]
                         ELSE [unique |-> Append(acc.unique, [parents[i] EXCEPT !.id = pid]),
                               seen |-> acc.seen \cup {pid},
                               removed |-> acc.removed]
    IN F[Len(parents)]

\* the test of line 118: start at pj, follow parent edges, look for pi
RedundantTest(pi, pj, parents_by_id) ==
    _is_reachable_parent(pj, pi, parents_by_id)

\* step 2, the nested loops over (i, j), i outermost; k enumerates the pairs
RECURSIVE RedundantIds(_, _, _, _)
RedundantIds(parent_ids, k, redundant_ids, parents_by_id) ==
    LET n == Len(parent_ids)
        i == (k \div n) + 1
        j == (k % n) + 1
    IN IF k >= n * n THEN redundant_ids
       ELSE IF i = j \/ parent_ids[j] \in redundant_ids
            THEN RedundantIds(parent_ids, k + 1, redundant_ids, parents_by_id)
       ELSE IF RedundantTest(parent_ids[i], parent_ids[j], parents_by_id)
            THEN RedundantIds(parent_ids, k + 1,
                              redundant_ids \cup {parent_ids[j]}, parents_by_id)
       ELSE RedundantIds(parent_ids, k + 1, redundant_ids, parents_by_id)

FilterOut(entries, ids) ==
    LET F[i \in 0..Len(entries)] ==
            IF i = 0 THEN <<>>
            ELSE IF entries[i].id \in ids THEN F[i - 1]
                 ELSE Append(F[i - 1], entries[i])
    IN F[Len(entries)]

\* step 3 without the guard against removing every parent
PruneUnguarded(unique_parents, redundant_ids) ==
    IF redundant_ids # {}
    THEN [parents |-> FilterOut(unique_parents, redundant_ids),
          removed |-> Cardinality(redundant_ids)]
    ELSE [parents |-> unique_parents, removed |-> 0]

\* step 3 keeping every parent
PruneNothing(unique_parents, redundant_ids) ==
    [parents |-> unique_parents, removed |-> 0]

\* step 3, lines 121-125
Prune(unique_parents, redundant_ids) ==
    IF redundant_ids # {} /\ Cardinality(redundant_ids) < Len(unique_parents)
    THEN [parents |-> FilterOut(unique_parents, redundant_ids),
          removed |-> Cardinality(redundant_ids)]
    ELSE [parents |-> unique_parents, removed |-> 0]

\* the loop body for one node of new_node_ids: [parents, removed]
DedupeNode(n, parents_by_id) ==
    IF Len(n.parents) <= 1 THEN [parents |-> n.parents, removed |-> 0]
    ELSE LET d == DedupeById(n.parents)
         IN IF Len(d.unique) <= 1
            THEN [parents |-> d.unique, removed |-> d.removed]
            ELSE LET parent_ids == [i \in 1..Len(d.unique) |-> d.unique[i].id]
                     red == RedundantIds(parent_ids, 0, {}, parents_by_id)
                     pr == Prune(d.unique, red)
                 IN [parents |-> pr.parents, removed |-> d.removed + pr.removed]

\* [nodes, removed]: the nodes after the in-place update and the return value
_dedupe_redundant_parents(nodes, new_node_ids) ==
    LET parents_by_id == _parents_by_id(nodes)
        new_id_set == {x \in Range(new_node_ids) : strip(x) # ""}
        Touched(i) == nodes[i].id \in new_id_set
        R(i) == DedupeNode(nodes[i], parents_by_id)
        Sum[i \in 0..Len(nodes)] ==
            IF i = 0 THEN 0
            ELSE Sum[i - 1] + (IF Touched(i) THEN R(i).removed ELSE 0)
    IN IF new_id_set = {} THEN [nodes |-> nodes, removed |-> 0]
       ELSE [nodes |-> [i \in 1..Len(nodes) |->
                          IF Touched(i) THEN [nodes[i] EXCEPT !.parents = R(i).parents]
                          ELSE nodes[i]],
             removed |-> Sum[Len(nodes)]]

\* ------------------------------------------------------------------------
\* steps_llm.build_llm_nodes_from_subtask_summary: validation of the reply
\* ------------------------------------------------------------------------
RawRelations == {"used", ""}

\* what dict.get gives for a key the dict does not have
Missing == "<missing>"

\* parent entries a generator may emit
RawParentEntries ==
    {[id |-> i, relation |-> "used"] : i \in NodeIds \cup {" N002"}}
        \cup {[id |-> RootId, relation |-> ""]}

\* candidate ids a generator may emit
RawCandidateIds == NodeIds \cup {" N002", ""}

\* a candidate is a record [id, title, description, parents, extra]; extra
\* stands for a key outside the node shape
RawCandidates ==
    [id : RawCandidateIds, title : {"T"}, description : {"D"},
     parents : SeqUpTo(RawParentEntries, MaxParents), extra : {Missing}]

\* the duplicate test of line 404 left out
IdTakenNever(node_id, allowed_parent_ids) == FALSE

\* line 404
IdTaken(node_id, allowed_parent_ids) == node_id \in allowed_parent_ids

\* a parent target is accepted whether or not it is known
ResolvableAlways(pid, allowed_parent_ids) == TRUE

\* line 423
Resolvable(pid, allowed_parent_ids) == pid \in allowed_parent_ids

\* line 446 moved above the parents check: the node's own id is allowed
AllowedWithSelf(acc, node_id) == acc.allowed \cup {node_id}

\* the set the parents of a candidate are checked against: line 446 adds
\* the candidate's id only after its parents were checked
AllowedForParents(acc, node_id) == acc.allowed

\* any relation will do
RelationOkAlways(rel) == TRUE

\* line 421: isinstance(rel, str) and rel.strip()
RelationOk(rel) == rel # Missing /\ strip(rel) # ""

\* lines 413-433: the entries kept, each as {id, relation} stripped
CleanedParents(parents, allowed_parent_ids) ==
    LET F[i \in 0..Len(parents)] ==
            IF i = 0 THEN <<>>
            ELSE IF RelationOk(parents[i].relation)
                    /\ Resolvable(strip(parents[i].id), allowed_parent_ids)
                 THEN Append(F[i - 1], [id |-> strip(parents[i].id),
                                        relation |-> strip(parents[i].relation)])
                 ELSE F[i - 1]
    IN F[Len(parents)]

\* a candidate without a valid parent is hung under the root
OrphanAttachedToRoot(acc, node) ==
    [nodes |-> Append(acc.nodes,
                      [node EXCEPT !.parents = <<[id |-> RootId, relation |-> "fallback"]>>]),
     allowed |-> acc.allowed \cup {node.id}]

\* a candidate without a valid parent is appended as it is
OrphanKept(acc, node) ==
    [nodes |-> Append(acc.nodes, node), allowed |-> acc.allowed \cup {node.id}]

\* lines 435-438: a candidate without a valid parent is skipped
OrphanOutcome(acc, node) == acc

\* an empty title is left empty
DefaultTitleNone(title, node_id) == IF title = Missing THEN "" ELSE title

\* lines 440-441: item.get("title") or node_id, when the title is missing,
\* empty or blank; a blank title is truthy and stays
DefaultTitle(title, node_id) ==
    IF title = Missing \/ title = "" THEN node_id ELSE title

\* lines 442-443: item.get("description") or ""
DefaultDescription(description) ==
    IF description = Missing \/ description = "" THEN "" ELSE description

\* the id of an accepted candidate is not made known
AllowedAfterUnchanged(acc, node_id) == acc.allowed

\* line 446
AllowedAfter(acc, node_id) == acc.allowed \cup {node_id}

\* one iteration of the loop of lines 395-446 on acc = [nodes, allowed];
\* the item itself is appended, with its id and parents rewritten and its
\* title and description defaulted (the artifacts lines 408-409 attach are
\* those of the call and are left out)
ValidateItem(acc, item) ==
    LET node_id == strip(item.id)
        cleaned_parents == CleanedParents(item.parents, AllowedForParents(acc, node_id))
        node == [item EXCEPT !.id = node_id,
                             !.parents = cleaned_parents,
                             !.title = DefaultTitle(item.title, node_id),
                             !.description = DefaultDescription(item.description)]
    IN IF node_id = "" THEN acc
       ELSE IF IdTaken(node_id, acc.allowed) THEN acc
       ELSE IF cleaned_parents = <<>> THEN OrphanOutcome(acc, node)
       ELSE [nodes |-> Append(acc.nodes, node),
             allowed |-> AllowedAfter(acc, node_id)]

\* steps_llm lines 236-238: the events validator also asks for pid.strip()
CleanedParentsEvents(parents, allowed_parent_ids) ==
    LET F[i \in 0..Len(parents)] ==
            IF i = 0 THEN <<>>
            ELSE IF strip(parents[i].id) # ""
                    /\ RelationOk(parents[i].relation)
                    /\ Resolvable(strip(parents[i].id), allowed_parent_ids)
                 THEN Append(F[i - 1], [id |-> strip(parents[i].id),
                                        relation |-> strip(parents[i].relation)])
                 ELSE F[i - 1]
    IN F[Len(parents)]

\* one iteration of the loop of lines 213-259 of build_llm_nodes_from_events
ValidateEventsItem(acc, item) ==
    LET node_id == strip(item.id)
        cleaned_parents == CleanedParentsEvents(item.parents, AllowedForParents(acc, node_id))
        node == [item EXCEPT !.id = node_id,
                             !.parents = cleaned_parents,
                             !.title = DefaultTitle(item.title, node_id),
                             !.description = DefaultDescription(item.description)]
    IN IF node_id = "" THEN acc
       ELSE IF IdTaken(node_id, acc.allowed) THEN acc
       ELSE IF cleaned_parents = <<>> THEN OrphanOutcome(acc, node)
       ELSE [nodes |-> Append(acc.nodes, node),
             allowed |-> AllowedAfter(acc, node_id)]

\* lines 282-284
ExistingIds(current_nodes) ==
    {current_nodes[i].id : i \in 1..Len(current_nodes)} \ {""}

\* the loop of lines 394-446: acc after each iteration, from 0 on
ValidateLoop(data, existing) ==
    LET F[i \in 0..Len(data)] ==
            IF i = 0 THEN [nodes |-> <<>>, allowed |-> existing]
            ELSE ValidateItem(F[i - 1], data[i])
    IN F

\* lines 394-449 on the parsed reply `data', given the ids of steps["nodes"]
ValidateBatch(data, existing) == ValidateLoop(data, existing)[Len(data)].nodes

\* the loop of lines 213-259 of build_llm_nodes_from_events
ValidateEventsLoop(data, existing) ==
    LET F[i \in 0..Len(data)] ==
            IF i = 0 THEN [nodes |-> <<>>, allowed |-> existing]
            ELSE ValidateEventsItem(F[i - 1], data[i])
    IN F

\* The node lists ValidateBatch can return for replies of at most k
\* candidates: the image of the loop, built one iteration at a time.
RECURSIVE LoopStates(_, _)
LoopStates(existing, k) ==
    IF k = 0 THEN {[nodes |-> <<>>, allowed |-> existing]}
    ELSE LET prev == LoopStates(existing, k - 1)
         IN prev \cup {ValidateItem(a, c) : a \in prev, c \in RawCandidates}

KnownSets == {S \in SUBSET NodeIds : RootId \in S}

\* for each set of existing ids, {ValidateBatch(data, existing) : data a
\* reply of at most MaxBatch candidates}, as a set of pairs
BuildOutcomeTable ==
    {<<existing, {a.nodes : a \in LoopStates(existing, MaxBatch)}>> : existing \in KnownSets}

BuildOutcomes(existing) ==
    (CHOOSE row \in BuildOutcomeTable : row[1] = existing)[2]

\* ------------------------------------------------------------------------
\* steps_graph.analyze_node_relationships / _calculate_execution_order
\* ------------------------------------------------------------------------
\* lines 80-85: the parent ids of a node in the current shape, a list
\* parents of {id, relation} entries
CurrentParentIds(node) ==
    LET F[i \in 0..Len(node.parents)] ==
            IF i = 0 THEN <<>>
            ELSE IF node.parents[i].id # "" /\ strip(node.parents[i].id) # ""
                 THEN Append(F[i - 1], strip(node.parents[i].id))
                 ELSE F[i - 1]
    IN F[Len(node.parents)]

\* lines 86-93 and 95: the parent ids of a node in the legacy shape.  The
\* field parent is [is_str, ids]: one id (line 88 makes a list of it) or
\* a list of ids
LegacyParentIds(node) ==
    LET raw == node.parent.ids
        F[i \in 0..Len(raw)] ==
            IF i = 0 THEN <<>>
            ELSE IF raw[i] # "" /\ strip(raw[i]) # ""
                 THEN Append(F[i - 1], strip(raw[i]))
                 ELSE F[i - 1]
    IN F[Len(raw)]

\* lines 79-93: parents when the node has the key, else parent
AnalyzeParentIds(node) ==
    IF "parents" \in DOMAIN node THEN CurrentParentIds(node)
    ELSE IF "parent" \in DOMAIN node THEN LegacyParentIds(node)
    ELSE <<>>

\* d.setdefault(k, []).append(v)
AppendAt(d, k, v) ==
    [x \in (DOMAIN d) \cup {k} |-> IF x = k THEN Append(Get(d, k), v) ELSE d[x]]

\* lines 94-97
RECURSIVE AppendEach(_, _, _, _)
AppendEach(views, node_id, pids, i) ==
    IF i > Len(pids) THEN views
    ELSE AppendEach([parent_child |-> AppendAt(views.parent_child, pids[i], node_id),
                     child_parent |-> AppendAt(views.child_parent, node_id, pids[i])],
                    node_id, pids, i + 1)

\* lines 74-97: [parent_child, child_parent]
BuildViews(nodes) ==
    LET F[i \in 0..Len(nodes)] ==
            IF i = 0 THEN [parent_child |-> <<>>, child_parent |-> <<>>]
            ELSE IF nodes[i].id = "" THEN F[i - 1]
                 ELSE AppendEach(F[i - 1], nodes[i].id, AnalyzeParentIds(nodes[i]), 1)
    IN F[Len(nodes)]

\* line 43
AllNodeIds(nodes) == {nodes[i].id : i \in 1..Len(nodes)} \ {""}

\* lines 44-48: one count per occurrence of nid in a list of children
InDegree(all_node_ids, parent_child) ==
    LET Slots == UNION {{<<p, i>> : i \in 1..Len(parent_child[p])} : p \in DOMAIN parent_child}
    IN [nid \in all_node_ids |->
            Cardinality({s \in Slots : parent_child[s[1]][s[2]] = nid})]

\* the orders in which a set may be iterated
Orderings(S) ==
    {o \in [1..Cardinality(S) -> S] : \A i, j \in 1..Cardinality(S) : i # j => o[i] # o[j]}

\* lines 54-58, the for loop over the children of current: [in_degree, queue]
RECURSIVE KahnFor(_, _, _, _)
KahnFor(children, i, in_degree, queue) ==
    IF i > Len(children) THEN [in_degree |-> in_degree, queue |-> queue]
    ELSE LET cid == children[i]
         IN IF cid \in DOMAIN in_degree
            THEN LET d == [in_degree EXCEPT ![cid] = @ - 1]
                 IN KahnFor(children, i + 1, d,
                            IF d[cid] = 0 THEN Append(queue, cid) ELSE queue)
            ELSE KahnFor(children, i + 1, in_degree, queue)

\* iterations of the while loop the model follows before giving up
KahnFuel(all_node_ids) == 2 * Cardinality(all_node_ids) + 2

\* lines 51-58, the while loop: [result, finished]
RECURSIVE KahnWhile(_, _, _, _, _)
KahnWhile(queue, result, in_degree, parent_child, fuel) ==
    IF queue = <<>> THEN [result |-> result, finished |-> TRUE]
    ELSE IF fuel = 0 THEN [result |-> result, finished |-> FALSE]
    ELSE LET current == Head(queue)
             r == KahnFor(Get(parent_child, current), 1, in_degree, Tail(queue))
         IN KahnWhile(r.queue, Append(result, current), r.in_degree, parent_child, fuel - 1)

\* the remaining ids in descending order
RECURSIVE SortedDescending(_)
SortedDescending(S) ==
    IF S = {} THEN <<>>
    ELSE LET m == CHOOSE x \in S : \A y \in S : Rank(x) >= Rank(y)
         IN <<m>> \o SortedDescending(S \ {m})

\* sorted(S) for a set of strings
RECURSIVE Sorted(_)
Sorted(S) ==
    IF S = {} THEN <<>>
    ELSE LET m == CHOOSE x \in S : \A y \in S : Rank(x) <= Rank(y)
         IN <<m>> \o Sorted(S \ {m})

\* the fallback of lines 59-61 left out
FallbackNone(result, all_node_ids) == result

\* lines 59-61
Fallback(result, all_node_ids) ==
    IF Len(result) < Cardinality(all_node_ids)
    THEN result \o Sorted(all_node_ids \ Range(result))
    ELSE result

\* line 49: the ids whose in-degree is zero.  They enter the queue in the
\* iteration order of the dict in_degree, which is that of the set
\* all_node_ids (line 43): any order.
ZeroInDegree(nodes, parent_child) ==
    LET in_degree == InDegree(AllNodeIds(nodes), parent_child)
    IN {nid \in AllNodeIds(nodes) : in_degree[nid] = 0}

\* _calculate_execution_order; queue is the list of line 49, emitted the
\* result as the while loop left it
_calculate_execution_order(nodes, parent_child, queue) ==
    LET all_node_ids == AllNodeIds(nodes)
        in_degree == InDegree(all_node_ids, parent_child)
        k == KahnWhile(queue, <<>>, in_degree, parent_child, KahnFuel(all_node_ids))
    IN [execution_order |-> Fallback(k.result, all_node_ids),
        emitted |-> k.result,
        finished |-> k.finished]

analyze_node_relationships(nodes, queue) ==
    LET v == BuildViews(nodes)
        o == _calculate_execution_order(nodes, v.parent_child, queue)
    IN [nodes |-> nodes,
        parent_child |-> v.parent_child,
        child_parent |-> v.child_parent,
        execution_order |-> o.execution_order,
        emitted |-> o.emitted,
        finished |-> o.finished]

\* ------------------------------------------------------------------------
\* The session store: got_writer.write_got_from_build_trace
\* ------------------------------------------------------------------------
Writers == 1..NumWriters

NoWriter == 0

ProjectName == "proj"

\* the session of the single-session specification
SessionId == "s1"

\* the session ids callers pass
Sessions == {"s1", "s2"}

NoSession == ""

\* every session shares one directory
GotDirShared(project_name, session_id) ==
    <<"/***/openhands", project_name, ".openhands", "got">>

\* lines 130-131: the path, as its components
_got_session_dir(project_name, session_id) ==
    <<"/***/openhands", project_name, ".openhands", "got", session_id>>

SessionDirs == {_got_session_dir(ProjectName, s) : s \in Sessions}

\* a file of a session directory; shape tells what the text parses to,
\* data is meaningful when exists
NoData == [meta |-> {}, nodes |-> <<>>]

NoFile == [exists |-> FALSE, shape |-> "graph", data |-> NoData,
           complete |-> FALSE, synced |-> FALSE]

NoDirs == [session_dir |-> FALSE, lock_file |-> FALSE]

\* lines 201-208
Sentinel ==
    [id |-> RootId, title |-> "Session start",
     description |-> "Root node for this session.",
     parents |-> <<[id |-> RootId, relation |-> "necessitated_by"]>>,
     extra |-> Missing]

\* request payloads: the shapes lines 213-226 and 273-278 tell apart
Payloads ==
    {[artifacts |-> "list", subtask |-> "ok", depends_on |-> "absent"],
     [artifacts |-> "list", subtask |-> "ok", depends_on |-> "strings"],
     [artifacts |-> "list", subtask |-> "blank_title", depends_on |-> "absent"],
     [artifacts |-> "not_list", subtask |-> "ok", depends_on |-> "absent"],
     [artifacts |-> "list", subtask |-> "empty", depends_on |-> "absent"],
     [artifacts |-> "list", subtask |-> "ok", depends_on |-> "not_strings"]}

NoPayload == [artifacts |-> "none", subtask |-> "none", depends_on |-> "none"]

\* lines 213-226: the request is accepted
PayloadOk(pl) ==
    /\ pl.artifacts = "list"
    /\ pl.subtask # "empty"
    /\ pl.depends_on # "not_strings"

NoResult == [status |-> "none", primary_node_id |-> "", nodes_added |-> 0, error |-> ""]

\* the call ended by the exception e
Raised(e) == [status |-> "exception", primary_node_id |-> "", nodes_added |-> 0, error |-> e]

VARIABLES
    dirs,       \* dirs[d]: which of the session directory d and its lock file exist
    file,       \* file[d]: got.json of the session directory d
    tmp,        \* tmp[w]: the temporary file of writer w's current attempt
    lock,       \* lock[d]: the writer whose open file holds the flock on
                \* got.json.lock of d
    pc,         \* pc[w]: where writer w stands in write_got_from_build_trace
    session,    \* session[w]: the session_id of the call in progress
    payload,    \* payload[w]: the request of the call in progress
    got,        \* got[w]: the graph in memory
    new_nodes,  \* new_nodes[w]: what build_nodes returned; the list shares its
                \* nodes with got[w], so it shows them as pruned
    result,     \* result[w]: what the last call returned
    calls,      \* calls started so far
    hist,       \* history, hist[d]: nodes counted by returned calls, and by
                \* calls that died between the rename and the return
    view,       \* the last result of analyze_node_relationships
    pin,        \* input of the pure-function specification
    pout        \* output of the pure-function specification

vars == <<dirs, file, tmp, lock, pc, session, payload, got, new_nodes, result, calls,
          hist, view, pin, pout>>

NoView == [nodes |-> <<>>, parent_child |-> <<>>, child_parent |-> <<>>,
           execution_order |-> <<>>, emitted |-> <<>>, finished |-> TRUE]

NoPure == [op |-> "none", nodes |-> <<>>, arg |-> <<>>, out |-> <<>>]

StoreInit ==
    /\ dirs = [d \in SessionDirs |-> NoDirs]
    /\ file = [d \in SessionDirs |-> NoFile]
    /\ tmp = [w \in Writers |-> NoFile]
    /\ lock = [d \in SessionDirs |-> NoWriter]
    /\ pc = [w \in Writers |-> "idle"]
    /\ session = [w \in Writers |-> NoSession]
    /\ payload = [w \in Writers |-> NoPayload]
    /\ got = [w \in Writers |-> NoData]
    /\ new_nodes = [w \in Writers |-> <<>>]
    /\ result = [w \in Writers |-> NoResult]
    /\ calls = 0
    /\ hist = [d \in SessionDirs |-> [returned |-> 0, orphaned |-> 0]]
    /\ view = NoView

Init ==
    /\ StoreInit
    /\ pin = NoPure
    /\ pout = NoPure

\* dict.setdefault on meta, a set of <<key, value>> pairs
SetDefault(meta, k, v) ==
    IF \E kv \in meta : kv[1] = k THEN meta ELSE meta \cup {<<k, v>>}

\* lines 134-151, [raised, data].  An absent file (FileNotFoundError) and a
\* text that is not JSON (JSONDecodeError) give the fresh graph; bytes that
\* are not UTF-8 make read_text raise UnicodeDecodeError, and a JSON value
\* that is not an object has no get (AttributeError): neither is caught.
_load_or_init(f) ==
    IF ~f.exists THEN [raised |-> FALSE, data |-> NoData]
    ELSE IF f.shape = "not_utf8" THEN [raised |-> TRUE, data |-> NoData]
    ELSE IF ~f.complete THEN [raised |-> FALSE, data |-> NoData]
    ELSE IF f.shape = "top_list" THEN [raised |-> TRUE, data |-> NoData]
    ELSE [raised |-> FALSE,
          data |-> [meta |-> IF f.shape = "meta_not_mapping" THEN {} ELSE f.data.meta,
                    nodes |-> IF f.shape = "nodes_not_list" THEN <<>> ELSE f.data.nodes]]

\* the session directory of the call writer w is in
Dir(w) == _got_session_dir(ProjectName, session[w])

\* lines 176-182: make the session directory, open the lock file
CallIn(w, session_id) ==
    /\ pc[w] = "idle"
    /\ calls < MaxCalls
    /\ \E pl \in Payloads : payload' = [payload EXCEPT ![w] = pl]
    /\ session' = [session EXCEPT ![w] = session_id]
    /\ calls' = calls + 1
    /\ pc' = [pc EXCEPT ![w] = "flock"]
    /\ got' = [got EXCEPT ![w] = NoData]
    /\ new_nodes' = [new_nodes EXCEPT ![w] = <<>>]
    /\ result' = [result EXCEPT ![w] = NoResult]
    /\ dirs' = [dirs EXCEPT ![_got_session_dir(ProjectName, session_id)] =
                    [session_dir |-> TRUE, lock_file |-> TRUE]]
    /\ UNCHANGED <<file, tmp, lock, hist, view, pin, pout>>

\* a call for the one session of Spec
Call(w) == CallIn(w, SessionId)

\* a call for any session
CallAny(w) == \E session_id \in Sessions : CallIn(w, session_id)

\* a lock that never waits
LockFreeAlways(w) == TRUE

\* line 183: flock(LOCK_EX) returns once no other open file holds the lock
\* of the lock file of this session directory
LockFree(w) == lock[Dir(w)] = NoWriter

Flock(w) ==
    /\ pc[w] = "flock"
    /\ LockFree(w)
    /\ lock' = [lock EXCEPT ![Dir(w)] = w]
    /\ pc' = [pc EXCEPT ![w] = "locked"]
    /\ UNCHANGED <<dirs, file, tmp, session, payload, got, new_nodes, result, calls,
                   hist, view, pin, pout>>

\* the sentinel is appended to whatever was loaded
LoadedAlwaysSentinel(f, session_id) ==
    LET g == _load_or_init(f).data
    IN [meta |-> SetDefault(SetDefault(g.meta, "project_name", ProjectName),
                            "session_id", session_id),
        nodes |-> g.nodes \o <<Sentinel>>]

\* lines 185-208: load, default the meta keys, create the sentinel
Loaded(f, session_id) ==
    LET g == _load_or_init(f).data
        meta == SetDefault(SetDefault(g.meta, "project_name", ProjectName),
                           "session_id", session_id)
    IN [meta |-> meta,
        nodes |-> IF g.nodes = <<>> THEN <<Sentinel>> ELSE g.nodes]

\* the lock file stays open and locked when the call ends
ReleasedNever(w) == lock

\* line 182, the end of the with block: the lock file is closed, which
\* drops its flock
Released(w) == [lock EXCEPT ![Dir(w)] = NoWriter]

\* leaving the with block of line 182 by the exception e: the lock file is
\* closed, the locals are gone
RaiseOut(w, e) ==
    /\ lock' = Released(w)
    /\ pc' = [pc EXCEPT ![w] = "idle"]
    /\ result' = [result EXCEPT ![w] = Raised(e)]
    /\ got' = [got EXCEPT ![w] = NoData]
    /\ new_nodes' = [new_nodes EXCEPT ![w] = <<>>]
    /\ payload' = [payload EXCEPT ![w] = NoPayload]
    /\ session' = [session EXCEPT ![w] = NoSession]

\* the text is written to the destination itself
WriteTargetInPlace(w, f) ==
    /\ file' = [file EXCEPT ![Dir(w)] = f]
    /\ UNCHANGED tmp

\* lines 155-156: the text goes to a file named by a fresh uuid
WriteTarget(w, f) ==
    /\ tmp' = [tmp EXCEPT ![w] = f]
    /\ UNCHANGED file

\* line 156, write_text opens the temporary file: it exists, its text is
\* not all there
WriteOpen(w, g) ==
    WriteTarget(w, [exists |-> TRUE, shape |-> "graph", data |-> g,
                    complete |-> FALSE, synced |-> FALSE])

\* the lock file is closed before the generator is awaited
ReleasedOverAwait(w) == [lock EXCEPT ![Dir(w)] = NoWriter]

\* lines 182-270: the await of line 234 is inside the with block, the lock
\* file stays open and locked across it
HeldOverAwait(w) == lock

\* the graph as initialised in memory is saved before the request is checked
InitSaved(w) ==
    /\ file' = [file EXCEPT ![Dir(w)] =
                    [exists |-> TRUE, shape |-> "graph",
                     data |-> Loaded(file[Dir(w)], session[w]),
                     complete |-> TRUE, synced |-> TRUE]]
    /\ UNCHANGED tmp

\* lines 185-208: meta.setdefault and nodes.append change the dict that
\* _load_or_init returned, no file
InitInMemory(w) == UNCHANGED <<file, tmp>>

\* lines 185-239 up to the await of the generator reply; a subtask with a
\* blank title or description makes build_nodes return [] without a reply
\* (steps_llm lines 273-278) and the call runs on into _atomic_write_json
Begin(w) ==
    /\ pc[w] = "locked"
    /\ IF _load_or_init(file[Dir(w)]).raised
       THEN RaiseOut(w, "AttributeError") /\ UNCHANGED <<file, tmp>>
       ELSE IF ~PayloadOk(payload[w])
       THEN RaiseOut(w, "ValueError") /\ InitInMemory(w)
       ELSE /\ got' = [got EXCEPT ![w] = Loaded(file[Dir(w)], session[w])]
            /\ IF payload[w].subtask = "blank_title"
               THEN /\ pc' = [pc EXCEPT ![w] = "writing"]
                    /\ WriteOpen(w, Loaded(file[Dir(w)], session[w]))
                    /\ UNCHANGED lock
               ELSE /\ pc' = [pc EXCEPT ![w] = "chat"]
                    /\ lock' = HeldOverAwait(w)
                    /\ UNCHANGED <<file, tmp>>
            /\ UNCHANGED <<result, new_nodes, payload, session>>
    /\ UNCHANGED <<dirs, calls, hist, view, pin, pout>>

\* the new nodes take the place of the loaded ones
AppendedReplacing(g, nn) ==
    IF nn = <<>> THEN g
    ELSE LET new_node_ids == [i \in 1..Len(nn) |-> nn[i].id]
         IN [g EXCEPT !.nodes = _dedupe_redundant_parents(<<g.nodes[1]>> \o nn, new_node_ids).nodes]

\* lines 242-247: extend, then reduce the parents of the new nodes
Appended(g, nn) ==
    IF nn = <<>> THEN g
    ELSE LET new_node_ids == [i \in 1..Len(nn) |-> nn[i].id]
         IN [g EXCEPT !.nodes = _dedupe_redundant_parents(g.nodes \o nn, new_node_ids).nodes]

\* the generator reply arrives: steps_llm lines 373-449, got_writer lines
\* 241-270, into _atomic_write_json
ChatReturn(w) ==
    /\ pc[w] = "chat"
    /\ \E built \in BuildOutcomes(ExistingIds(got[w].nodes)) :
          LET g == Appended(got[w], built)
          IN /\ got' = [got EXCEPT ![w] = g]
             /\ new_nodes' = [new_nodes EXCEPT ![w] =
                                SubSeq(g.nodes, Len(g.nodes) - Len(built) + 1, Len(g.nodes))]
             /\ WriteOpen(w, g)
    /\ pc' = [pc EXCEPT ![w] = "writing"]
    /\ UNCHANGED <<dirs, lock, session, payload, result, calls, hist, view, pin, pout>>

\* adapter.chat raises (steps_llm line 373)
ChatRaise(w) ==
    /\ pc[w] = "chat"
    /\ RaiseOut(w, "ChatError")
    /\ UNCHANGED <<dirs, file, tmp, calls, hist, view, pin, pout>>

\* ------------------------------------------------------------------------
\* got_writer._atomic_write_json
\* ------------------------------------------------------------------------
\* line 156, write_text returns: the text is complete
WriteDone(w) ==
    /\ pc[w] = "writing"
    /\ WriteTarget(w, [exists |-> TRUE, shape |-> "graph", data |-> got[w],
                       complete |-> TRUE, synced |-> FALSE])
    /\ pc' = [pc EXCEPT ![w] = "written"]
    /\ UNCHANGED <<dirs, lock, session, payload, got, new_nodes, result, calls, hist,
                   view, pin, pout>>

\* line 156, write_text raises (no space, I/O error)
WriteRaise(w) ==
    /\ pc[w] = "writing"
    /\ RaiseOut(w, "OSError")
    /\ UNCHANGED <<dirs, file, tmp, calls, hist, view, pin, pout>>

\* the rename is done without forcing the text to stable storage
FsyncSkipped(f) == f

\* lines 157-159
Fsynced(f) == [f EXCEPT !.synced = TRUE]

Fsync(w) ==
    /\ pc[w] = "written"
    /\ tmp' = [tmp EXCEPT ![w] = IF tmp[w].exists THEN Fsynced(tmp[w]) ELSE tmp[w]]
    /\ pc' = [pc EXCEPT ![w] = "synced"]
    /\ UNCHANGED <<dirs, file, lock, session, payload, got, new_nodes, result, calls,
                   hist, view, pin, pout>>

\* line 160: os.replace
Replace(w) ==
    /\ pc[w] = "synced"
    /\ IF tmp[w].exists
       THEN /\ file' = [file EXCEPT ![Dir(w)] = tmp[w]]
            /\ tmp' = [tmp EXCEPT ![w] = NoFile]
       ELSE UNCHANGED <<file, tmp>>
    /\ pc' = [pc EXCEPT ![w] = "replaced"]
    /\ UNCHANGED <<dirs, lock, session, payload, got, new_nodes, result, calls, hist,
                   view, pin, pout>>

\* primary_node_id is returned as it stands, None when nothing was added
OkResultNoDefault(nn) ==
    [status |-> "ok",
     primary_node_id |-> IF nn = <<>> THEN "None" ELSE nn[Len(nn)].id,
     nodes_added |-> Len(nn),
     error |-> ""]

\* the id of the first new node
PrimaryFirst(nn) == nn[1].id

\* line 244: new_nodes[-1].get("id")
PrimaryOf(nn) == nn[Len(nn)].id

\* lines 244 and 272-277 (the key "deduped", always False, is left out)
OkResult(nn) ==
    [status |-> "ok",
     primary_node_id |-> IF nn = <<>> THEN "" ELSE PrimaryOf(nn),
     nodes_added |-> Len(nn),
     error |-> ""]

\* lines 272-277 and the end of the with block
Return(w) ==
    /\ pc[w] = "replaced"
    /\ result' = [result EXCEPT ![w] = OkResult(new_nodes[w])]
    /\ hist' = [hist EXCEPT ![Dir(w)].returned = @ + Len(new_nodes[w])]
    /\ lock' = Released(w)
    /\ pc' = [pc EXCEPT ![w] = "idle"]
    /\ got' = [got EXCEPT ![w] = NoData]
    /\ new_nodes' = [new_nodes EXCEPT ![w] = <<>>]
    /\ payload' = [payload EXCEPT ![w] = NoPayload]
    /\ session' = [session EXCEPT ![w] = NoSession]
    /\ UNCHANGED <<dirs, file, tmp, calls, view, pin, pout>>

\* ------------------------------------------------------------------------
\* The environment: a writer process is killed; the machine loses power
\* ------------------------------------------------------------------------
\* nodes a writer has renamed into place without having returned
Unreturned(w) == IF pc[w] = "replaced" THEN Len(new_nodes[w]) ELSE 0

\* nodes renamed into place in directory d by writers that have not returned
UnreturnedIn(d) ==
    Cardinality({<<w, i>> \in Writers \X (1..MaxBatch) :
                    pc[w] # "idle" /\ Dir(w) = d /\ i <= Unreturned(w)})

\* the kernel closes the files of a dead process, which drops its flock;
\* its temporary file stays
Crash(w) ==
    /\ pc[w] # "idle"
    /\ pc' = [pc EXCEPT ![w] = "idle"]
    /\ lock' = [d \in SessionDirs |-> IF lock[d] = w THEN NoWriter ELSE lock[d]]
    /\ got' = [got EXCEPT ![w] = NoData]
    /\ new_nodes' = [new_nodes EXCEPT ![w] = <<>>]
    /\ result' = [result EXCEPT ![w] = NoResult]
    /\ hist' = [hist EXCEPT ![Dir(w)].orphaned = @ + Unreturned(w)]
    /\ payload' = [payload EXCEPT ![w] = NoPayload]
    /\ session' = [session EXCEPT ![w] = NoSession]
    /\ UNCHANGED <<dirs, file, tmp, calls, view, pin, pout>>

\* what a file may hold after a power loss: text that was not forced to
\* stable storage may be cut short
AfterPowerLoss(f) ==
    IF f.exists /\ ~f.synced
    THEN {[f EXCEPT !.synced = TRUE], [f EXCEPT !.complete = FALSE, !.synced = TRUE]}
    ELSE {f}

PowerLoss ==
    /\ \E w \in Writers : pc[w] # "idle"
    /\ pc' = [w \in Writers |-> "idle"]
    /\ lock' = [d \in SessionDirs |-> NoWriter]
    /\ got' = [w \in Writers |-> NoData]
    /\ new_nodes' = [w \in Writers |-> <<>>]
    /\ result' = [w \in Writers |-> NoResult]
    /\ payload' = [w \in Writers |-> NoPayload]
    /\ session' = [w \in Writers |-> NoSession]
    /\ hist' = [d \in SessionDirs |-> [hist[d] EXCEPT !.orphaned = @ + UnreturnedIn(d)]]
    /\ file' \in [SessionDirs -> UNION {AfterPowerLoss(file[d]) : d \in SessionDirs}]
    /\ \A d \in SessionDirs : file'[d] \in AfterPowerLoss(file[d])
    /\ \E cut \in SUBSET Writers :
          tmp' = [w \in Writers |->
                    IF tmp[w].exists /\ ~tmp[w].synced
                    THEN [tmp[w] EXCEPT !.synced = TRUE,
                                        !.complete = IF w \in cut THEN FALSE ELSE @]
                    ELSE tmp[w]]
    /\ UNCHANGED <<dirs, calls, view, pin, pout>>

\* ------------------------------------------------------------------------
\* A reader builds the views of the persisted graph of a session
\* ------------------------------------------------------------------------
Analyze ==
    /\ \E d \in SessionDirs :
          /\ file[d].exists /\ file[d].complete
          /\ \E queue \in Orderings(ZeroInDegree(file[d].data.nodes,
                                        BuildViews(file[d].data.nodes).parent_child)) :
                view' = analyze_node_relationships(file[d].data.nodes, queue)
    /\ UNCHANGED <<dirs, file, tmp, lock, pc, session, payload, got, new_nodes, result,
                   calls, hist, pin, pout>>

Next ==
    \/ \E w \in Writers : Call(w)
    \/ \E w \in Writers : Flock(w)
    \/ \E w \in Writers : Begin(w)
    \/ \E w \in Writers : ChatReturn(w)
    \/ \E w \in Writers : ChatRaise(w)
    \/ \E w \in Writers : WriteDone(w)
    \/ \E w \in Writers : WriteRaise(w)
    \/ \E w \in Writers : Fsync(w)
    \/ \E w \in Writers : Replace(w)
    \/ \E w \in Writers : Return(w)
    \/ \E w \in Writers : Crash(w)
    \/ PowerLoss
    \/ Analyze

Spec == Init /\ [][Next]_vars

\* the writers of the same store with callers of several sessions
NextSessions ==
    \/ \E w \in Writers : CallAny(w)
    \/ \E w \in Writers : Flock(w)
    \/ \E w \in Writers : Begin(w)
    \/ \E w \in Writers : ChatReturn(w)
    \/ \E w \in Writers : ChatRaise(w)
    \/ \E w \in Writers : WriteDone(w)
    \/ \E w \in Writers : WriteRaise(w)
    \/ \E w \in Writers : Fsync(w)
    \/ \E w \in Writers : Replace(w)
    \/ \E w \in Writers : Return(w)
    \/ \E w \in Writers : Crash(w)
    \/ PowerLoss

SpecSessions == Init /\ [][NextSessions]_vars

\* ------------------------------------------------------------------------
\* One server process: the build_trace calls are coroutines of one event
\* loop (server.py lines 40-56 await the tool on the loop's thread)
\* ------------------------------------------------------------------------
\* coroutine w is suspended at the await of line 234, or not in a call
OffThread(w) == pc[w] \in {"idle", "chat"}

\* the thread is free for coroutine w: a coroutine runs from one await to
\* the next without a switch, and fcntl.flock of line 183 is a blocking
\* call that keeps the thread until the lock is granted
ThreadFor(w) == \A v \in Writers \ {w} : OffThread(v)

\* the steps of coroutine w the loop takes without a new request
LoopStep(w) ==
    /\ ThreadFor(w)
    /\ \/ Flock(w)
       \/ Begin(w)
       \/ ChatReturn(w)
       \/ ChatRaise(w)
       \/ WriteDone(w)
       \/ WriteRaise(w)
       \/ Fsync(w)
       \/ Replace(w)
       \/ Return(w)

NextLoop ==
    \/ \E w \in Writers : ThreadFor(w) /\ Call(w)
    \/ \E w \in Writers : ThreadFor(w) /\ Flock(w)
    \/ \E w \in Writers : ThreadFor(w) /\ Begin(w)
    \/ \E w \in Writers : ThreadFor(w) /\ ChatReturn(w)
    \/ \E w \in Writers : ThreadFor(w) /\ ChatRaise(w)
    \/ \E w \in Writers : ThreadFor(w) /\ WriteDone(w)
    \/ \E w \in Writers : ThreadFor(w) /\ WriteRaise(w)
    \/ \E w \in Writers : ThreadFor(w) /\ Fsync(w)
    \/ \E w \in Writers : ThreadFor(w) /\ Replace(w)
    \/ \E w \in Writers : ThreadFor(w) /\ Return(w)

\* the loop runs a coroutine that can run, and every generator call ends:
\* a step of w that stays possible is taken
SpecLoop == Init /\ [][NextLoop]_vars /\ \A w \in Writers : WF_vars(LoopStep(w))

\* ------------------------------------------------------------------------
\* The pure functions on drawn inputs
\* ------------------------------------------------------------------------
\* parent entries of an input graph: the three ids, one padded, one that
\* names no node
PureParentEntries ==
    {[id |-> i, relation |-> "used"] : i \in {"N001", "N002", "N003", " N002", "N004"}}

\* parent entries of the last node: also a second entry for N001, told
\* from the first by its relation
LastParentEntries ==
    PureParentEntries \cup {[id |-> "N001", relation |-> "produced"]}

\* the id of the last node: fresh, a duplicate, missing
PureLastIds == {"N003", "N001", ""}

\* graphs of three nodes; the last one carries up to MaxParents entries
PureGraphs ==
    {<<[id |-> "N001", parents |-> p1], [id |-> "N002", parents |-> p2],
       [id |-> i3, parents |-> p3]>> :
        p1 \in SeqUpTo(PureParentEntries, 1), p2 \in SeqUpTo(PureParentEntries, 1),
        i3 \in PureLastIds, p3 \in SeqUpTo(LastParentEntries, MaxParents)}

\* raw candidates of a drawn reply: the raw ids and parent entries but
\* those of N004, at most one parent entry
PureCandidates ==
    [id : RawCandidateIds \ {"N004"}, title : {"T"}, description : {"D"},
     parents : SeqUpTo({p \in RawParentEntries : p.id # "N004"}, 1), extra : {Missing}]

\* parent entries of a wide candidate: also one without a relation
WideParentEntries ==
    RawParentEntries \cup {[id |-> RootId, relation |-> Missing]}

\* wide candidates: a fresh id, up to MaxParents entries
WideCandidates ==
    [id : {"N003"}, title : {"T"}, description : {"D"},
     parents : SeqUpTo(WideParentEntries, MaxParents), extra : {Missing}]

\* what a title or a description may be: missing, empty, blank, a text
RawTexts == {Missing, "", "  ", "T"}

\* candidates with a valid id and a valid parent, any title and
\* description, with or without a key outside the node shape
FieldCandidates ==
    [id : {"N003"}, title : RawTexts, description : RawTexts,
     parents : {<<[id |-> RootId, relation |-> "used"]>>}, extra : {Missing, "x"}]

\* the parsed replies drawn: up to MaxBatch candidates, or a wide candidate
\* alone, before or after another candidate, or one candidate of any fields
PureBatches ==
    SeqUpTo(PureCandidates, MaxBatch)
        \cup {<<w>> \o r : w \in WideCandidates, r \in SeqUpTo(PureCandidates, 1)}
        \cup {r \o <<w>> : w \in WideCandidates, r \in SeqUpTo(PureCandidates, 1)}
        \cup {<<c>> : c \in FieldCandidates}

\* the ids of steps["nodes"] a drawn reply is validated against
PureExisting == {{RootId}, {RootId, "N002"}}

\* what got.json may hold when it is loaded: nothing, a graph, and texts
\* that are no graph, each whole or cut short
PureFiles ==
    {NoFile} \cup
    [exists : {TRUE},
     shape : {"graph", "top_list", "meta_not_mapping", "nodes_not_list", "not_utf8"},
     data : {NoData, [meta |-> {<<"project_name", ProjectName>>}, nodes |-> <<Sentinel>>]},
     complete : BOOLEAN,
     synced : {TRUE}]

\* the payload argument of build_trace: a BuildTracePayload, or a dict that
\* does or does not construct one
ToolPayloads ==
    {"model", "dict_ok", "dict_no_subtask", "dict_no_artifacts", "dict_blank_project"}

\* how write_got_from_build_trace may end
WriteOutcomes ==
    {Raised(e) : e \in {"ValueError", "ChatError", "OSError", "AttributeError", "ImportError"}}
        \cup {OkResult(nn) : nn \in {<<>>, <<[id |-> "N002", parents |-> <<>>]>>,
                                      <<[id |-> "N002", parents |-> <<>>],
                                        [id |-> "N003", parents |-> <<>>]>>}}

\* ------------------------------------------------------------------------
\* IdentifierAllocator.nextId, after section 4.2 of the specification: src/
\* holds no id allocation, ids are those the generator proposes
\* ------------------------------------------------------------------------
\* the ids of the session's pattern, N and a suffix of three digits, at
\* the place of their suffix
IdFormat == <<"N001", "N002", "N003", "N004", "N005", "N006">>

\* id matches the pattern
MatchesPattern(id) == id \in Range(IdFormat)

\* the numeric suffix of an id of the pattern
SuffixOf(id) == CHOOSE n \in 1..Len(IdFormat) : IdFormat[n] = id

\* the id of suffix n, zero-padded to the fixed width
FormatId(n) == IdFormat[n]

\* the suffix seen last stands for the maximum
SuffixLast(sofar, suffix) == suffix

\* the greater of the maximum so far and the suffix of one more id
SuffixMax(sofar, suffix) == IF suffix > sofar THEN suffix ELSE sofar

\* nextId over the ids in the order they are enumerated
nextId(existingIds) ==
    LET F[i \in 0..Len(existingIds)] ==
            IF i = 0 THEN 0
            ELSE IF MatchesPattern(existingIds[i])
                 THEN SuffixMax(F[i - 1], SuffixOf(existingIds[i]))
                 ELSE F[i - 1]
    IN FormatId(F[Len(existingIds)] + 1)

\* the ids an enumeration is drawn from: ids of the pattern and one that
\* is not
EnumerableIds == NodeIds \cup {""}

\* the enumerations of up to MaxIds different ids
Enumerations ==
    {ids \in SeqUpTo(EnumerableIds, MaxIds) :
        \A i, j \in 1..Len(ids) : i # j => ids[i] # ids[j]}

\* the inputs of PureNextId
IdInputs ==
    {[op |-> "ids", nodes |-> ids, arg |-> <<>>, out |-> <<>>] : ids \in Enumerations}

\* the inputs of PureReduce and PureAnalyze
GraphInputs ==
    {[op |-> "graph", nodes |-> g, arg |-> <<>>, out |-> <<>>] : g \in PureGraphs}

\* the inputs of PureValidate: the parsed reply and the existing ids
BatchInputs ==
    {[op |-> "batch", nodes |-> data, arg |-> existing, out |-> <<>>] :
        data \in PureBatches, existing \in PureExisting}

\* the inputs of PureLoad
FileInputs ==
    {[op |-> "file", nodes |-> f, arg |-> <<>>, out |-> <<>>] : f \in PureFiles}

\* the inputs of PureTool: the payload and how the inner call ends
RequestInputs ==
    {[op |-> "request", nodes |-> p, arg |-> inner, out |-> <<>>] :
        p \in ToolPayloads, inner \in WriteOutcomes}

InitPure ==
    /\ StoreInit
    /\ \/ pin \in GraphInputs
       \/ pin \in BatchInputs
       \/ pin \in FileInputs
       \/ pin \in RequestInputs
       \/ pin \in IdInputs
    /\ pout = NoPure

\* Each behaviour applies one function once to the input drawn: the
\* actions below are enabled while pout holds no result.

\* new_node_ids passed with a graph: none, the last node, the last two
NewIdLists(nodes) ==
    {<<>>, <<nodes[Len(nodes)].id>>, <<nodes[Len(nodes) - 1].id, nodes[Len(nodes)].id>>}

PureReduce ==
    /\ pin.op = "graph"
    /\ pout.op = "none"
    /\ \E new_node_ids \in NewIdLists(pin.nodes) :
          pout' = [op |-> "reduce", nodes |-> pin.nodes, arg |-> new_node_ids,
                   out |-> _dedupe_redundant_parents(pin.nodes, new_node_ids)]
    /\ UNCHANGED <<dirs, file, tmp, lock, pc, session, payload, got, new_nodes, result,
                   calls, hist, view, pin>>

PureAnalyze ==
    /\ pin.op = "graph"
    /\ pout.op = "none"
    /\ \E queue \in Orderings(ZeroInDegree(pin.nodes, BuildViews(pin.nodes).parent_child)) :
          pout' = [op |-> "analyze", nodes |-> pin.nodes, arg |-> queue,
                   out |-> analyze_node_relationships(pin.nodes, queue)]
    /\ UNCHANGED <<dirs, file, tmp, lock, pc, session, payload, got, new_nodes, result,
                   calls, hist, view, pin>>

\* the ids a reachability test of PureReach starts at: the first node and
\* the last, the one with the longest parents list
ReachStarts == {"N001", "N003"}

\* _is_reachable_parent on the map of a drawn graph, line 70, to any id
PureReach ==
    /\ pin.op = "graph"
    /\ pout.op = "none"
    /\ \E start_id \in ReachStarts, target_id \in NodeIds :
          LET parents_by_id == _parents_by_id(pin.nodes)
          IN pout' = [op |-> "reach", nodes |-> pin.nodes,
                      arg |-> [start_id |-> start_id, target_id |-> target_id,
                               parents_by_id |-> parents_by_id],
                      out |-> ReachRun(start_id, target_id, parents_by_id)]
    /\ UNCHANGED <<dirs, file, tmp, lock, pc, session, payload, got, new_nodes, result,
                   calls, hist, view, pin>>

\* a graph in the legacy shape: each node gives its parents as one id or
\* as a list of ids
LegacyShape(nodes) ==
    [i \in 1..Len(nodes) |->
        [id |-> nodes[i].id,
         parent |-> [is_str |-> Len(nodes[i].parents) = 1,
                     ids |-> [k \in 1..Len(nodes[i].parents) |-> nodes[i].parents[k].id]]]]

\* analyze_node_relationships on a drawn graph in the legacy shape and on
\* the same graph in the current shape: two runs, each with its own
\* iteration order of the set of ids
PureLegacy ==
    /\ pin.op = "graph"
    /\ pout.op = "none"
    /\ LET legacy == LegacyShape(pin.nodes)
           zero == ZeroInDegree(pin.nodes, BuildViews(pin.nodes).parent_child)
           zero_legacy == ZeroInDegree(legacy, BuildViews(legacy).parent_child)
       IN \E queue \in Orderings(zero), queue_legacy \in Orderings(zero_legacy) :
             pout' = [op |-> "legacy", nodes |-> pin.nodes, arg |-> legacy,
                      out |-> [current |-> analyze_node_relationships(pin.nodes, queue),
                               legacy |-> analyze_node_relationships(legacy, queue_legacy)]]
    /\ UNCHANGED <<dirs, file, tmp, lock, pc, session, payload, got, new_nodes, result,
                   calls, hist, view, pin>>

\* steps_llm lines 393-449 on a drawn reply
PureValidate ==
    /\ pin.op = "batch"
    /\ pout.op = "none"
    /\ pout' = [op |-> "validate", nodes |-> pin.nodes, arg |-> pin.arg,
                out |-> ValidateBatch(pin.nodes, pin.arg),
                steps |-> ValidateLoop(pin.nodes, pin.arg)]
    /\ UNCHANGED <<dirs, file, tmp, lock, pc, session, payload, got, new_nodes, result,
                   calls, hist, view, pin>>

\* steps_llm lines 213-259 on a drawn reply
PureValidateEvents ==
    /\ pin.op = "batch"
    /\ pout.op = "none"
    /\ pout' = [op |-> "validate_events", nodes |-> pin.nodes, arg |-> pin.arg,
                out |-> ValidateEventsLoop(pin.nodes, pin.arg)[Len(pin.nodes)].nodes,
                steps |-> ValidateEventsLoop(pin.nodes, pin.arg)]
    /\ UNCHANGED <<dirs, file, tmp, lock, pc, session, payload, got, new_nodes, result,
                   calls, hist, view, pin>>

\* _load_or_init on a drawn file
PureLoad ==
    /\ pin.op = "file"
    /\ pout.op = "none"
    /\ pout' = [op |-> "load", nodes |-> pin.nodes, arg |-> <<>>,
                out |-> _load_or_init(pin.nodes)]
    /\ UNCHANGED <<dirs, file, tmp, lock, pc, session, payload, got, new_nodes, result,
                   calls, hist, view, pin>>

\* tool.py lines 185-186 and model_post_init: the dict constructs a
\* BuildTracePayload
Constructs(p) == p \in {"model", "dict_ok"}

\* tool.py line 219: of the result of write_got_from_build_trace only the
\* status is returned
BuildTraceReturn(res) == [status |-> res.status]

\* tool.py lines 185-226, [raised, value]; inner is how the call of
\* write_got_from_build_trace ends.  Lines 185-186 stand before the try of
\* line 207: what the construction raises is not caught.
build_trace(p, inner) ==
    IF ~Constructs(p)
    THEN [raised |-> TRUE, value |-> [status |-> "none"]]
    ELSE IF inner.status = "exception"
         THEN [raised |-> FALSE, value |-> [status |-> "error"]]
         ELSE [raised |-> FALSE, value |-> BuildTraceReturn(inner)]

PureTool ==
    /\ pin.op = "request"
    /\ pout.op = "none"
    /\ pout' = [op |-> "tool", nodes |-> pin.nodes, arg |-> pin.arg,
                out |-> build_trace(pin.nodes, pin.arg)]
    /\ UNCHANGED <<dirs, file, tmp, lock, pc, session, payload, got, new_nodes, result,
                   calls, hist, view, pin>>

\* nextId on a drawn enumeration of ids
PureNextId ==
    /\ pin.op = "ids"
    /\ pout.op = "none"
    /\ pout' = [op |-> "next_id", nodes |-> pin.nodes, arg |-> <<>>,
                out |-> nextId(pin.nodes)]
    /\ UNCHANGED <<dirs, file, tmp, lock, pc, session, payload, got, new_nodes, result,
                   calls, hist, view, pin>>

NextPure ==
    \/ PureReduce
    \/ PureAnalyze
    \/ PureReach
    \/ PureLegacy
    \/ PureValidate
    \/ PureValidateEvents
    \/ PureLoad
    \/ PureTool
    \/ PureNextId

SpecPure == InitPure /\ [][NextPure]_vars

\* ------------------------------------------------------------------------
\* Graph notions used by the properties
\* ------------------------------------------------------------------------
\* the ids the nodes named id have parent edges to
ParentSet(nodes, id) ==
    UNION {{strip(nodes[i].parents[k].id) : k \in 1..Len(nodes[i].parents)} :
              i \in {i \in 1..Len(nodes) : strip(nodes[i].id) = id}}

RECURSIVE Closure(_, _, _)
Closure(nodes, S, k) ==
    IF k = 0 THEN S
    ELSE Closure(nodes, S \cup UNION {ParentSet(nodes, x) : x \in S}, k - 1)

\* the ids reached from id by one or more parent edges
Ancestors(nodes, id) == Closure(nodes, ParentSet(nodes, id), Len(nodes))

\* a path of one or more parent edges leads from a to b
HasPath(nodes, a, b) == b \in Ancestors(nodes, a)

Ids(nodes) == [i \in 1..Len(nodes) |-> nodes[i].id]

ParentIdList(node) == [k \in 1..Len(node.parents) |-> node.parents[k].id]

NoDuplicates(seq) == \A i, j \in 1..Len(seq) : i # j => seq[i] # seq[j]

\* position of x in a sequence without duplicates, 0 when absent
Pos(seq, x) == IF \E i \in 1..Len(seq) : seq[i] = x
               THEN CHOOSE i \in 1..Len(seq) : seq[i] = x ELSE 0

\* the graphs the store writes: the sentinel first, ids distinct, every
\* other node with parents among the nodes before it
StoreShaped(nodes) ==
    /\ Len(nodes) >= 1
    /\ nodes[1].id = RootId
    /\ ParentIdList(nodes[1]) = <<RootId>>
    /\ NoDuplicates(Ids(nodes))
    /\ \A i \in 2..Len(nodes) :
          /\ nodes[i].parents # <<>>
          /\ \A k \in 1..Len(nodes[i].parents) :
                \E j \in 1..(i - 1) : nodes[j].id = nodes[i].parents[k].id

\* the directory and got.json of the session of Spec
TheDir == _got_session_dir(ProjectName, SessionId)

GotFile == file[TheDir]

\* the graphs to which the invariants apply: got.json when it parses, and
\* the graph a writer is about to persist
PersistedNodes == IF GotFile.exists /\ GotFile.complete THEN GotFile.data.nodes ELSE <<>>

Graphs ==
    {PersistedNodes} \cup {got[w].nodes : w \in {w \in Writers : pc[w] \in {"writing", "written", "synced", "replaced"}}}

\* ------------------------------------------------------------------------
\* C1
\* ------------------------------------------------------------------------
\* C1: when a new node C of a graph the store builds has the two parents
\* [A, B] and a path of parent edges leads from B to A (and none from A to
\* B), then after _dedupe_redundant_parents the parents of C are [B].
C1_KeepsCloserParent ==
    (pout.op = "reduce" /\ StoreShaped(pout.nodes)) =>
        \A i \in 1..Len(pout.nodes) :
            LET c == pout.nodes[i]
                ps == ParentIdList(c)
            IN (/\ c.id \in Range(pout.arg)
                /\ Len(ps) = 2
                /\ ps[1] # ps[2]
                /\ HasPath(pout.nodes, ps[2], ps[1])
                /\ ~HasPath(pout.nodes, ps[1], ps[2]))
               => ParentIdList(pout.out.nodes[i]) = <<ps[2]>>

\* ------------------------------------------------------------------------
\* C2
\* ------------------------------------------------------------------------
Acyclic(nodes) ==
    /\ \A i \in 1..Len(nodes) :
          nodes[i].id \in Ancestors(nodes, nodes[i].id) => nodes[i].id = RootId
    /\ \A i \in 1..Len(nodes) :
          nodes[i].id = RootId => ParentSet(nodes, RootId) = {RootId}

\* C2: after any sequence of appends no node of the persisted graph is
\* reached from itself by one or more parent edges, except the sentinel by
\* its self-edge, which is its only parent edge.
C2_Acyclic == \A g \in Graphs : Acyclic(g)

\* a chain of three nodes is persisted
C2_Witness ==
    \E i, j \in 2..Len(PersistedNodes) :
        /\ i # j
        /\ PersistedNodes[i].id \in ParentSet(PersistedNodes, PersistedNodes[j].id)

\* ------------------------------------------------------------------------
\* C3
\* ------------------------------------------------------------------------
\* writer w is between its load and the end of its persist
InTxn(w) == pc[w] \in {"locked", "chat", "writing", "written", "synced", "replaced"}

\* nodes of got.json beyond the sentinel
PersistedAdded == IF PersistedNodes = <<>> THEN 0 ELSE Len(PersistedNodes) - 1

\* C3: two appends to the session never overlap between load and persist,
\* and once no append is in progress got.json holds every node the appends
\* accepted: the nodes beyond the sentinel number the sum of the batches,
\* and their ids are distinct.
C3_NoInterleaving ==
    /\ \A w1, w2 \in Writers : (w1 # w2 /\ InTxn(w1)) => ~InTxn(w2)
    /\ (\A w \in Writers : pc[w] = "idle") =>
          /\ PersistedAdded = hist[TheDir].returned + hist[TheDir].orphaned
          /\ NoDuplicates(Ids(PersistedNodes))

\* both writers have returned from an append that added nodes
C3_Witness ==
    /\ \A w \in Writers : pc[w] = "idle" /\ result[w].status = "ok" /\ result[w].nodes_added >= 1
    /\ PersistedAdded = result[1].nodes_added + result[2].nodes_added

\* ------------------------------------------------------------------------
\* C4
\* ------------------------------------------------------------------------
\* a version of the graph as an append writes it
CompleteVersion(f) ==
    /\ f.complete
    /\ f.data.meta = {<<"project_name", ProjectName>>, <<"session_id", SessionId>>}
    /\ Len(f.data.nodes) >= 1
    /\ f.data.nodes[1] = Sentinel

\* got.json changes only by the rename of a complete, synced temporary file
ChangedByRename ==
    GotFile' # GotFile =>
        \E w \in Writers :
            /\ pc[w] = "synced" /\ pc'[w] = "replaced"
            /\ GotFile' = tmp[w]
            /\ CompleteVersion(tmp[w]) /\ tmp[w].synced

\* C4: in every state, crashes and power losses included, got.json is
\* absent or holds one complete version; it changes only by the rename, so
\* a crash before the rename leaves it as it was.
C4_CrashSafe == [](GotFile.exists => CompleteVersion(GotFile)) /\ [][ChangedByRename]_vars

\* a writer died while writing its temporary file: the file is left cut
\* short, got.json holds the version before
C4_Witness ==
    \E w \in Writers :
        /\ pc[w] = "idle"
        /\ tmp[w].exists /\ ~tmp[w].complete
        /\ GotFile.exists
        /\ Len(tmp[w].data.nodes) > Len(GotFile.data.nodes)

\* ------------------------------------------------------------------------
\* C5
\* ------------------------------------------------------------------------
Minimal(nodes) ==
    \A i \in 1..Len(nodes) :
        \A k, l \in 1..Len(nodes[i].parents) :
            k # l =>
                /\ nodes[i].parents[k].id # nodes[i].parents[l].id
                /\ ~HasPath(nodes, nodes[i].parents[k].id, nodes[i].parents[l].id)

\* C5: no node of a graph the store persists has two parent edges to P and
\* Q with P = Q or with a path of parent edges from one to the other.
C5_EdgeMinimal == \A g \in Graphs : Minimal(g)

\* a node with two parents, neither an ancestor of the other, is persisted
C5_Witness ==
    \E i \in 1..Len(PersistedNodes) : Len(PersistedNodes[i].parents) = 2

\* ------------------------------------------------------------------------
\* C6
\* ------------------------------------------------------------------------
\* the well-formed parent edges of a node
EdgeCount(node) == Len(ParentIdsOf(node.parents))

AllRedundant(node, nodes) ==
    LET u == DedupeById(node.parents).unique
    IN /\ Len(u) >= 2
       /\ \A k \in 1..Len(u) : \E l \in 1..Len(u) :
             l # k /\ (u[l].id = u[k].id \/ HasPath(nodes, u[k].id, u[l].id))

\* C6: a node that enters _dedupe_redundant_parents with at least one
\* parent edge has at least one afterwards, and when each of its
\* de-duplicated parents reaches another one, it keeps them all.
C6_NeverZeroParents ==
    pout.op = "reduce" =>
        \A i \in 1..Len(pout.nodes) :
            /\ EdgeCount(pout.nodes[i]) >= 1 => EdgeCount(pout.out.nodes[i]) >= 1
            /\ (pout.nodes[i].id \in Range(pout.arg) /\ pout.nodes[i].id # ""
                /\ AllRedundant(pout.nodes[i], pout.nodes))
               => pout.out.nodes[i].parents = DedupeById(pout.nodes[i].parents).unique

\* a new node whose two parents reach each other keeps both
C6_Witness ==
    /\ pout.op = "reduce"
    /\ \E i \in 1..Len(pout.nodes) :
          /\ pout.nodes[i].id \in Range(pout.arg) /\ pout.nodes[i].id # ""
          /\ AllRedundant(pout.nodes[i], pout.nodes)
          /\ Len(pout.out.nodes[i].parents) = 2

\* ------------------------------------------------------------------------
\* C7
\* ------------------------------------------------------------------------
\* the ids persisted stay where they are
IdsStable ==
    \A i \in 1..Len(PersistedNodes) :
        /\ GotFile'.exists /\ GotFile'.complete
        /\ Len(GotFile'.data.nodes) >= i
        /\ GotFile'.data.nodes[i].id = PersistedNodes[i].id

\* C7: no two nodes of a persisted graph share an id, and the id at a
\* position of got.json never changes.
C7_IdsUniqueStable ==
    [](\A g \in Graphs : NoDuplicates(Ids(g))) /\ [][IdsStable]_vars

\* a second append has added to the nodes of a first
C7_Witness ==
    /\ hist[TheDir].returned >= 2
    /\ calls = 2
    /\ \E w \in Writers : result[w].status = "ok" /\ result[w].nodes_added < hist[TheDir].returned
                          /\ result[w].nodes_added >= 1

\* ------------------------------------------------------------------------
\* C8
\* ------------------------------------------------------------------------
BackwardOnly(nodes) ==
    \A i \in 1..Len(nodes) :
        nodes[i].id # RootId =>
            \A k \in 1..Len(nodes[i].parents) :
                \E j \in 1..(i - 1) : nodes[j].id = nodes[i].parents[k].id

\* C8: every parent edge of every persisted node other than the sentinel
\* targets the id of a node at a strictly earlier position.
C8_NoDanglingOrForward == \A g \in Graphs : BackwardOnly(g)

\* a persisted node has the node just before it, not the sentinel, as a
\* parent
C8_Witness ==
    \E i \in 3..Len(PersistedNodes) :
        PersistedNodes[i - 1].id \in Range(ParentIdList(PersistedNodes[i]))

\* ------------------------------------------------------------------------
\* C9
\* ------------------------------------------------------------------------
\* C9: for every edge of a persisted graph, P a parent of C and P # C, P
\* stands before C in execution_order.
C9_OrderRespectsEdges ==
    \A i \in 1..Len(view.nodes) :
        \A k \in 1..Len(view.nodes[i].parents) :
            LET c == view.nodes[i].id
                p == view.nodes[i].parents[k].id
            IN p # c => Pos(view.execution_order, p) < Pos(view.execution_order, c)

\* ------------------------------------------------------------------------
\* C10
\* ------------------------------------------------------------------------
\* C10: on any graph (cycles, self-edges, duplicate parent entries, parents
\* naming no node, duplicate or missing node ids) the computation ends and
\* execution_order lists every id of a node once and nothing else.
C10_OrderComplete ==
    pout.op = "analyze" =>
        /\ pout.out.finished
        /\ NoDuplicates(pout.out.execution_order)
        /\ Range(pout.out.execution_order) = {pout.nodes[i].id : i \in 1..Len(pout.nodes)} \ {""}

\* the order of a graph with a cycle and a parent that names no node
C10_Witness ==
    /\ pout.op = "analyze"
    /\ HasPath(pout.nodes, "N001", "N002") /\ HasPath(pout.nodes, "N002", "N001")
    /\ "N004" \in ParentSet(pout.nodes, "N003")
    /\ Len(pout.out.execution_order) = 3

\* ------------------------------------------------------------------------
\* C11
\* ------------------------------------------------------------------------
\* a candidate nothing but an id collision could stand against: it has an
\* id and a parent entry with a relation and a target among the existing ids
Acceptable(c, existing) ==
    /\ strip(c.id) # ""
    /\ \E k \in 1..Len(c.parents) :
          strip(c.parents[k].relation) # "" /\ strip(c.parents[k].id) \in existing

\* C11: with the sentinel N001 persisted, no acceptable candidate of a
\* reply is lost to an id collision: a candidate proposing N001 (or any
\* taken id) is accepted under a fresh id, so as many nodes are accepted
\* as there are acceptable candidates, under distinct ids that no
\* persisted node has.
C11_CollisionRemapped ==
    (pout.op = "validate" /\ RootId \in pout.arg) =>
        /\ Len(pout.out) >=
              Cardinality({i \in 1..Len(pout.nodes) : Acceptable(pout.nodes[i], pout.arg)})
        /\ NoDuplicates(Ids(pout.out))
        /\ \A i \in 1..Len(pout.out) : pout.out[i].id \notin pout.arg

\* ------------------------------------------------------------------------
\* C12
\* ------------------------------------------------------------------------
\* C12: a writer that is anywhere between its flock and the end of its
\* with block (the load, the wait for the generator, the write, the fsync,
\* the rename) holds the lock of its session, and the lock of a session is
\* held by no one else: at most one transaction per session.
C12_MutualExclusion ==
    /\ \A w \in Writers : InTxn(w) => lock[Dir(w)] = w
    /\ \A d \in SessionDirs :
          lock[d] # NoWriter => (InTxn(lock[d]) /\ Dir(lock[d]) = d)

\* one writer waits for the generator, holding the lock, while the other
\* waits in flock
C12_Witness ==
    \E w1, w2 \in Writers :
        /\ pc[w1] = "chat" /\ lock[Dir(w1)] = w1
        /\ pc[w2] = "flock" /\ Dir(w2) = Dir(w1)

Unreadable(f) == ~f.complete \/ f.shape \in {"top_list", "not_utf8"}

\* C14: whatever got.json holds, _load_or_init raises nothing; it returns
\* the fresh graph when the file is absent or unreadable, an empty meta
\* for a meta that is no mapping and empty nodes for nodes that are no list.
C14_LoadNeverFails ==
    pout.op = "load" =>
        LET f == pout.nodes
        IN /\ ~pout.out.raised
           /\ (~f.exists \/ Unreadable(f)) => pout.out.data = NoData
           /\ (f.exists /\ f.shape = "meta_not_mapping") => pout.out.data.meta = {}
           /\ (f.exists /\ f.shape = "nodes_not_list") => pout.out.data.nodes = <<>>

\* ------------------------------------------------------------------------
\* C15
\* ------------------------------------------------------------------------
\* C15: build_trace raises nothing; when the payload does not make a
\* BuildTracePayload or the inner call raises, it returns status error.
C15_NeverPropagates ==
    pout.op = "tool" =>
        /\ ~pout.out.raised
        /\ (~Constructs(pout.nodes) \/ pout.arg.status = "exception")
              => pout.out.value.status = "error"

\* ------------------------------------------------------------------------
\* C16
\* ------------------------------------------------------------------------
\* C16: when the inner call succeeds, build_trace returns its status, its
\* primary_node_id and its nodes_added.
C16_ReturnsPrimaryAndCount ==
    (pout.op = "tool" /\ Constructs(pout.nodes) /\ pout.arg.status = "ok") =>
        /\ pout.out.value.status = "ok"
        /\ {"primary_node_id", "nodes_added"} \subseteq DOMAIN pout.out.value
        /\ pout.out.value.primary_node_id = pout.arg.primary_node_id
        /\ pout.out.value.nodes_added = pout.arg.nodes_added

\* ------------------------------------------------------------------------
\* C17
\* ------------------------------------------------------------------------
\* the request of the call writer w is in is one lines 213-226 refuse
BadRequest(w) == payload[w] # NoPayload /\ ~PayloadOk(payload[w])

\* C17: a call with a bad request (artifacts not a list, subtask missing or
\* empty, depends_on not a list of strings) never reaches the generator or
\* the write, and when it is the first call of all, no session directory,
\* lock file, temporary file or got.json comes to exist.
C17_FailFast ==
    \A w \in Writers :
        BadRequest(w) =>
            /\ pc[w] \notin {"chat", "writing", "written", "synced", "replaced"}
            /\ calls = 1 =>
                  (dirs[Dir(w)] = NoDirs /\ tmp[w] = NoFile /\ ~file[Dir(w)].exists)

\* ------------------------------------------------------------------------
\* C18
\* ------------------------------------------------------------------------
\* writer w renames its file into place, having got no node to add
RenamesNothingNew(w) ==
    pc[w] = "synced" /\ pc'[w] = "replaced" /\ new_nodes[w] = <<>>

\* writer w returns from an append that got no node to add
ReturnsNothingNew(w) ==
    pc[w] = "replaced" /\ pc'[w] = "idle" /\ result'[w].status # "none"
        /\ new_nodes[w] = <<>>

ReturnsOkZero(w) ==
    /\ result'[w].status = "ok"
    /\ result'[w].nodes_added = 0
    /\ result'[w].primary_node_id = ""

IsPrefix(a, b) == Len(a) <= Len(b) /\ SubSeq(b, 1, Len(a)) = a

\* C19: in every step, failing and crashing appends and power losses
\* included, the nodes persisted before are a prefix, unchanged node by
\* node, of the nodes persisted after; and the graph a writer is about to
\* persist begins with the nodes persisted.
C19_AppendOnly ==
    /\ [][IsPrefix(PersistedNodes, PersistedNodes')]_vars
    /\ [](\A w \in Writers :
            pc[w] \in {"writing", "written", "synced"} =>
                IsPrefix(PersistedNodes, got[w].nodes))

\* an append has renamed into place a graph that adds to two nodes or more
C19_Witness ==
    \E w \in Writers :
        /\ pc[w] = "replaced" /\ Len(new_nodes[w]) >= 1
        /\ Len(PersistedNodes) >= 2 + Len(new_nodes[w])

\* ------------------------------------------------------------------------
\* C20
\* ------------------------------------------------------------------------
SentinelOnceAndFirst(nodes) ==
    nodes # <<>> =>
        /\ nodes[1] = Sentinel
        /\ \A i \in 2..Len(nodes) :
              /\ nodes[i].id # RootId
              /\ nodes[i].id \notin Range(ParentIdList(nodes[i]))

\* C20: got.json has no nodes until the first write; from then on its
\* first node is the sentinel, id N001 with the one parent edge to N001,
\* no later node has the id N001 and no later node is its own parent.
C20_RootSentinel ==
    /\ \A g \in Graphs : SentinelOnceAndFirst(g)
    /\ GotFile.exists => PersistedNodes # <<>>

\* two appends have added a node each after the sentinel
C20_Witness ==
    /\ calls = 2
    /\ Len(PersistedNodes) = 3
    /\ \A w \in Writers : pc[w] = "idle" /\ result[w].nodes_added = 1

\* ------------------------------------------------------------------------
\* Notions of the validation properties
\* ------------------------------------------------------------------------
\* one of the two validators has run on the drawn reply
ValidationDone == pout.op \in {"validate", "validate_events"}

\* the ids known before candidate i is looked at
KnownBefore(i) == pout.steps[i - 1].allowed

\* candidate i was appended
StepAccepted(i) == Len(pout.steps[i].nodes) = Len(pout.steps[i - 1].nodes) + 1

\* the node candidate i became
StepNode(i) == pout.steps[i].nodes[Len(pout.steps[i].nodes)]

\* a parent entry with a relation that is not blank and a known target
EntryValid(entry, known) ==
    /\ entry.relation \notin {Missing, "", "  "}
    /\ strip(entry.id) \in known

HasValidParent(item, known) ==
    \E k \in 1..Len(item.parents) : EntryValid(item.parents[k], known)

\* candidate i has an id, and one that is not known yet
IdUsable(i) ==
    /\ strip(pout.nodes[i].id) # ""
    /\ strip(pout.nodes[i].id) \notin KnownBefore(i)

\* ------------------------------------------------------------------------
\* C22
\* ------------------------------------------------------------------------
\* C22: on both validators a candidate left without a valid parent is
\* dropped: it is not appended, its id is not added to the known ids, and
\* no node is returned without parents or with a parent edge its
\* candidate did not carry.
C22_ParentlessDropped ==
    ValidationDone =>
        /\ \A i \in 1..Len(pout.nodes) :
              ~HasValidParent(pout.nodes[i], KnownBefore(i)) =>
                  pout.steps[i] = pout.steps[i - 1]
        /\ \A j \in 1..Len(pout.out) :
              /\ pout.out[j].parents # <<>>
              /\ \A k \in 1..Len(pout.out[j].parents) :
                    \E i \in 1..Len(pout.nodes) :
                        /\ strip(pout.nodes[i].id) = pout.out[j].id
                        /\ \E m \in 1..Len(pout.nodes[i].parents) :
                              /\ strip(pout.nodes[i].parents[m].id) = pout.out[j].parents[k].id
                              /\ strip(pout.nodes[i].parents[m].relation)
                                    = pout.out[j].parents[k].relation

\* the events validator dropped a first candidate with a usable id and no
\* valid parent, and with it the second candidate, which names the first
C22_Witness ==
    /\ pout.op = "validate_events"
    /\ Len(pout.nodes) = 2
    /\ IdUsable(1)
    /\ pout.nodes[1].parents # <<>>
    /\ ~HasValidParent(pout.nodes[1], KnownBefore(1))
    /\ IdUsable(2)
    /\ Len(pout.nodes[2].parents) = 1
    /\ strip(pout.nodes[2].parents[1].id) = strip(pout.nodes[1].id)
    /\ pout.nodes[2].parents[1].relation = "used"
    /\ pout.out = <<>>

\* ------------------------------------------------------------------------
\* C23
\* ------------------------------------------------------------------------
\* the valid entries of a candidate in their order, id and relation stripped
ValidEntries(item, known) ==
    LET Valid(entry) == EntryValid(entry, known)
        kept == SelectSeq(item.parents, Valid)
    IN [k \in 1..Len(kept) |->
            [id |-> strip(kept[k].id), relation |-> strip(kept[k].relation)]]

\* C23: parent entries are filtered one by one: a candidate with a usable
\* id and at least one valid entry is accepted, and its parents are
\* exactly its valid entries in their original order; an entry without a
\* relation or with an unknown target is dropped alone.
C23_PerEntryFiltering ==
    ValidationDone =>
        \A i \in 1..Len(pout.nodes) :
            /\ (IdUsable(i) /\ HasValidParent(pout.nodes[i], KnownBefore(i)))
                  => StepAccepted(i)
            /\ StepAccepted(i) =>
                  /\ StepNode(i).id = strip(pout.nodes[i].id)
                  /\ StepNode(i).parents = ValidEntries(pout.nodes[i], KnownBefore(i))

\* a candidate was accepted with one of its two entries, the second one
C23_Witness ==
    /\ pout.op = "validate"
    /\ \E i \in 1..Len(pout.nodes) :
          /\ StepAccepted(i)
          /\ Len(pout.nodes[i].parents) = 2
          /\ ~EntryValid(pout.nodes[i].parents[1], KnownBefore(i))
          /\ Len(StepNode(i).parents) = 1
          /\ StepNode(i).parents[1].id = strip(pout.nodes[i].parents[2].id)

\* ------------------------------------------------------------------------
\* C24
\* ------------------------------------------------------------------------
\* the ids of the candidates accepted before candidate i
AcceptedBefore(i) ==
    {strip(pout.nodes[k].id) : k \in {k \in 1..(i - 1) : StepAccepted(k)}}

\* the ids a parent entry of candidate i may name
Nameable(i) == pout.arg \cup AcceptedBefore(i)

\* C24: references within a batch resolve in declaration order only: an
\* entry of a candidate resolves exactly when it names an existing id or
\* a candidate accepted before it, so a candidate naming an accepted
\* earlier one is accepted with that edge, and no entry naming a later or
\* a rejected candidate is kept.
C24_DeclarationOrder ==
    ValidationDone =>
        \A i \in 1..Len(pout.nodes) :
            /\ KnownBefore(i) = Nameable(i)
            /\ (IdUsable(i) /\ HasValidParent(pout.nodes[i], Nameable(i)))
                  => StepAccepted(i)
            /\ StepAccepted(i) =>
                  \A k \in 1..Len(pout.nodes[i].parents) :
                      pout.nodes[i].parents[k].relation \notin {Missing, "", "  "} =>
                          (strip(pout.nodes[i].parents[k].id) \in Range(ParentIdList(StepNode(i)))
                              <=> strip(pout.nodes[i].parents[k].id) \in Nameable(i))

\* the second candidate was accepted with its edge to the first, which
\* was accepted just before it and is no existing id
C24_Witness ==
    /\ pout.op = "validate"
    /\ Len(pout.nodes) = 2
    /\ StepAccepted(1) /\ StepAccepted(2)
    /\ StepNode(1).id \notin pout.arg
    /\ StepNode(1).id \in Range(ParentIdList(StepNode(2)))

\* ------------------------------------------------------------------------
\* C25
\* ------------------------------------------------------------------------
\* C25: an accepted node carries no key outside id, title, description,
\* status, parents and artifacts.
C25_ShapeStripped ==
    ValidationDone => \A j \in 1..Len(pout.out) : pout.out[j].extra = Missing

\* ------------------------------------------------------------------------
\* C26
\* ------------------------------------------------------------------------
\* C26: every accepted node has a title that is not empty and a
\* description that is not empty.
C26_TitleAndDescription ==
    ValidationDone =>
        \A j \in 1..Len(pout.out) :
            /\ pout.out[j].title \notin {Missing, ""}
            /\ pout.out[j].description \notin {Missing, ""}

Reduced(i) ==
    /\ pout.nodes[i].id \in Range(pout.arg)
    /\ strip(pout.nodes[i].id) # ""
    /\ Len(pout.nodes[i].parents) > 1

\* the place of the first entry of a list that names id
FirstNaming(parents, id) ==
    CHOOSE k \in 1..Len(parents) :
        /\ strip(parents[k].id) = id
        /\ \A m \in 1..(k - 1) : strip(parents[m].id) # id

\* C28: de-duplication of parents is stable: after the reducer no id is
\* named twice by a node it looked at, each entry left is the first entry
\* of the input naming its id, with that entry's relation, and the entries
\* left stand in the order their first entries had.
C28_StableDedup ==
    pout.op = "reduce" =>
        \A i \in 1..Len(pout.nodes) :
            Reduced(i) =>
                LET before == pout.nodes[i].parents
                    after == pout.out.nodes[i].parents
                IN /\ NoDuplicates(ParentIdList(pout.out.nodes[i]))
                   /\ \A k \in 1..Len(after) :
                         /\ \E m \in 1..Len(before) : strip(before[m].id) = after[k].id
                         /\ after[k] = [before[FirstNaming(before, after[k].id)]
                                            EXCEPT !.id = after[k].id]
                   /\ \A k, l \in 1..Len(after) :
                         k < l => FirstNaming(before, after[k].id)
                                      < FirstNaming(before, after[l].id)

\* the last node named N001 twice with different relations and was left
\* with the first of the two entries
C28_Witness ==
    /\ pout.op = "reduce"
    /\ Reduced(3)
    /\ Len(pout.nodes[3].parents) = 2
    /\ pout.nodes[3].parents[1].id = pout.nodes[3].parents[2].id
    /\ pout.nodes[3].parents[1].relation # pout.nodes[3].parents[2].relation
    /\ pout.out.nodes[3].parents = <<pout.nodes[3].parents[1]>>

\* ------------------------------------------------------------------------
\* C29
\* ------------------------------------------------------------------------
\* the ids a map leads to from the ids of S in at most k further steps
RECURSIVE MapClosure(_, _, _)
MapClosure(parents_by_id, S, k) ==
    IF k = 0 THEN S
    ELSE MapClosure(parents_by_id,
                    S \cup UNION {Range(Get(parents_by_id, x)) : x \in S}, k - 1)

\* a path of one or more edges of the map leads from a to b
MapPath(parents_by_id, a, b) ==
    b \in MapClosure(parents_by_id, Range(Get(parents_by_id, a)),
                     Cardinality(MapIds(parents_by_id)))

\* C29: on every map, with cycles and self-edges too, the reachability
\* test ends, takes no id from its stack twice, and answers true exactly
\* when start and target are the same id or a path of parent edges leads
\* from start to target.
C29_ReachTotalExact ==
    pout.op = "reach" =>
        /\ pout.out.finished
        /\ NoDuplicates(pout.out.popped)
        /\ pout.out.hit <=>
              (\/ pout.arg.start_id = pout.arg.target_id
               \/ MapPath(pout.arg.parents_by_id, pout.arg.start_id, pout.arg.target_id))

\* the test said no on a map where the start lies on a cycle of two ids
C29_Witness ==
    /\ pout.op = "reach"
    /\ ~pout.out.hit
    /\ Len(pout.out.popped) >= 2
    /\ \E x \in NodeIds \ {pout.arg.start_id} :
          /\ MapPath(pout.arg.parents_by_id, pout.arg.start_id, x)
          /\ MapPath(pout.arg.parents_by_id, x, pout.arg.start_id)

\* ------------------------------------------------------------------------
\* C30
\* ------------------------------------------------------------------------
\* C30: when the loop of Kahn's algorithm emits fewer ids than there are,
\* execution_order is the emitted ids in the order of their emission
\* followed by the remaining ids in ascending order; otherwise it is the
\* emitted ids.
C30_FallbackOrdering ==
    pout.op = "analyze" =>
        LET order == pout.out.execution_order
            emitted == pout.out.emitted
            ids == {pout.nodes[i].id : i \in 1..Len(pout.nodes)} \ {""}
            n == Len(emitted)
        IN IF n < Cardinality(ids)
           THEN /\ Len(order) = Cardinality(ids)
                /\ SubSeq(order, 1, n) = emitted
                /\ {order[k] : k \in (n + 1)..Len(order)} = ids \ Range(emitted)
                /\ \A k, l \in (n + 1)..Len(order) :
                      k < l => Rank(order[k]) < Rank(order[l])
           ELSE order = emitted

\* one id was emitted and the two ids of a cycle were appended after it
C30_Witness ==
    /\ pout.op = "analyze"
    /\ Len(pout.out.emitted) = 1
    /\ Len(pout.out.execution_order) = 3

\* ------------------------------------------------------------------------
\* C21
\* ------------------------------------------------------------------------
\* the ids of a set that are N and three digits, as numbers
Suffixes(S) == {n \in 1..Len(IdFormat) : IdFormat[n] \in S}

\* C21: nextId returns the id of the pattern whose suffix is one more than
\* the greatest suffix among the ids of the pattern it is given, zero-padded
\* to three digits, whatever the order of enumeration: N005 for N001, N002
\* and N004; the id returned is none of those given.
C21_NextId ==
    pout.op = "next_id" =>
        LET given == Range(pout.nodes)
        IN /\ Suffixes(given) # {} =>
                 \E n \in Suffixes(given) :
                     /\ \A m \in Suffixes(given) : m <= n
                     /\ pout.out = IdFormat[n + 1]
           /\ pout.out \notin given
           /\ given = {"N001", "N002", "N004"} => pout.out = "N005"

\* N004, N001 and N002 were enumerated in that order and N005 came out
C21_Witness ==
    /\ pout.op = "next_id"
    /\ pout.nodes = <<"N004", "N001", "N002">>
    /\ pout.out = "N005"

\* ------------------------------------------------------------------------
\* C31
\* ------------------------------------------------------------------------
\* the ids of a set in the order their nodes were inserted
RECURSIVE InsertionOrder(_, _)
InsertionOrder(nodes, S) ==
    IF nodes = <<>> THEN <<>>
    ELSE IF Head(nodes).id \in S
         THEN <<Head(nodes).id>> \o InsertionOrder(Tail(nodes), S \ {Head(nodes).id})
         ELSE InsertionOrder(Tail(nodes), S)

\* C31: execution_order is a function of the graph: it is the order found
\* when the ids whose in-degree is zero at the start enter the queue in
\* the insertion order of their nodes, whatever order the set of ids is
\* iterated in, so two runs on one graph agree.
C31_Deterministic ==
    pout.op = "analyze" =>
        LET fixed == InsertionOrder(pout.nodes,
                         ZeroInDegree(pout.nodes, pout.out.parent_child))
        IN pout.out.execution_order
               = analyze_node_relationships(pout.nodes, fixed).execution_order

\* ------------------------------------------------------------------------
\* C32
\* ------------------------------------------------------------------------
\* C is listed under P in parent_child exactly when P is listed under C in
\* child_parent
InverseViews(v) ==
    \A p, c \in (DOMAIN v.parent_child) \cup (DOMAIN v.child_parent) :
        c \in Range(Get(v.parent_child, p)) <=> p \in Range(Get(v.child_parent, c))

\* the two shapes give the same edge views, each the inverse of the other
SameViews ==
    /\ pout.out.legacy.parent_child = pout.out.current.parent_child
    /\ pout.out.legacy.child_parent = pout.out.current.child_parent
    /\ InverseViews(pout.out.legacy)
    /\ InverseViews(pout.out.current)

\* C32: a graph in the legacy shape yields the same parent_child,
\* child_parent and execution_order as the same graph in the current
\* shape, and in both shapes parent_child and child_parent are inverse
\* views.
C32_LegacyEquivalence ==
    pout.op = "legacy" =>
        /\ SameViews
        /\ pout.out.legacy.execution_order = pout.out.current.execution_order

\* ------------------------------------------------------------------------
\* C33
\* ------------------------------------------------------------------------
\* C33: the lock of a session is held only by a writer inside the with
\* block of a call for that session: a call that ended, by its return or
\* by an exception of the request checks, of the generator call or of the
\* write, holds no lock, so the next call can take it.
C33_LockReleased ==
    \A d \in SessionDirs, w \in Writers :
        lock[d] = w => (InTxn(w) /\ Dir(w) = d)

\* one call ended by an exception and the other call, started after it,
\* holds the lock
C33_Witness ==
    \E w, v \in Writers :
        /\ w # v
        /\ pc[w] = "idle" /\ result[w].status = "exception"
        /\ lock[TheDir] = v /\ pc[v] = "chat"

\* ------------------------------------------------------------------------
\* C34
\* ------------------------------------------------------------------------
\* writer w holds the lock and has not renamed its file into place
BeforeRename(w) == pc[w] \in {"locked", "chat", "writing", "written", "synced"}

\* the call of writer w ends by an exception before the rename
FailsBeforeRename(w) ==
    BeforeRename(w) /\ pc'[w] = "idle" /\ result'[w].status = "exception"

\* C34: from the lock to the rename no step changes got.json of the
\* session, so when the append fails there (request check, generator
\* call, write of the temporary file) the file is what it was before the
\* call, the sentinel and meta set in memory are not saved, and build_trace
\* returns the status "error".
C34_FailedPersistsNothing ==
    [][\A w \in Writers :
          /\ (BeforeRename(w) /\ (FailsBeforeRename(w)
                 \/ pc'[w] \in {"locked", "chat", "writing", "written", "synced"}))
                => file'[Dir(w)] = file[Dir(w)]
          /\ FailsBeforeRename(w) =>
                build_trace("model", result'[w]) = [raised |-> FALSE, value |-> [status |-> "error"]]]_vars

\* an append failed while writing its temporary file, which holds more
\* nodes than got.json
C34_Witness ==
    \E w \in Writers :
        /\ pc[w] = "idle" /\ result[w].status = "exception" /\ result[w].error = "OSError"
        /\ tmp[w].exists /\ ~tmp[w].complete
        /\ GotFile.exists
        /\ Len(tmp[w].data.nodes) > Len(GotFile.data.nodes)

\* ------------------------------------------------------------------------
\* C35
\* ------------------------------------------------------------------------
\* every node has a parent edge and a path of parent edges to the sentinel
Connected(nodes) ==
    \A i \in 1..Len(nodes) :
        /\ Len(nodes[i].parents) >= 1
        /\ HasPath(nodes, nodes[i].id, RootId)

\* C35: every node of the persisted graph, and of the graph an append is
\* about to persist, has at least one parent edge and a path of parent
\* edges to the root sentinel N001.
C35_Connected == \A g \in Graphs : Connected(g)

\* a persisted node reaches the sentinel only through another node
C35_Witness ==
    \E i \in 2..Len(PersistedNodes) :
        /\ RootId \notin ParentSet(PersistedNodes, PersistedNodes[i].id)
        /\ HasPath(PersistedNodes, PersistedNodes[i].id, RootId)

\* ------------------------------------------------------------------------
\* C36
\* ------------------------------------------------------------------------
\* C36: on a graph the store builds, every node named in new_node_ids
\* reaches by parent edges the same set of ids after
\* _dedupe_redundant_parents as before it.
C36_AncestryPreserved ==
    (pout.op = "reduce" /\ StoreShaped(pout.nodes)) =>
        \A i \in 1..Len(pout.nodes) :
            pout.nodes[i].id \in Range(pout.arg) =>
                Ancestors(pout.out.nodes, pout.nodes[i].id)
                    = Ancestors(pout.nodes, pout.nodes[i].id)

\* ------------------------------------------------------------------------
\* C37
\* ------------------------------------------------------------------------
\* C37: when two build_trace coroutines of one event loop are in calls for
\* the same session and every generator call returns, both calls end and
\* the lock is free again: the second coroutine's wait for the lock does
\* not keep the first from resuming.
C37_LoopProgress ==
    (\A w \in Writers : pc[w] # "idle")
        ~> (lock[TheDir] = NoWriter /\ \A w \in Writers : pc[w] = "idle")

\* ------------------------------------------------------------------------
\* C38
\* ------------------------------------------------------------------------
\* writer w renames its file into place
Renames(w) == pc[w] = "synced" /\ pc'[w] = "replaced"

\* writer w returns from its append
ReturnsOk(w) == pc[w] = "replaced" /\ pc'[w] = "idle" /\ result'[w].status = "ok"

\* C38: the rename of an append makes the persisted node count the count
\* before it plus the number of new nodes, plus one for the sentinel when
\* no node was persisted; the append then returns that number as
\* nodes_added, with primary_node_id the id of the last persisted node
\* when nodes were added and "" when none was.
C38_ResultAccounting ==
    [][\A w \in Writers :
          /\ Renames(w) =>
                Len(PersistedNodes') = Len(PersistedNodes) + Len(new_nodes[w])
                                         + (IF PersistedNodes = <<>> THEN 1 ELSE 0)
          /\ ReturnsOk(w) =>
                /\ result'[w].nodes_added = Len(new_nodes[w])
                /\ result'[w].nodes_added > 0 =>
                      result'[w].primary_node_id = PersistedNodes[Len(PersistedNodes)].id
                /\ result'[w].nodes_added = 0 => result'[w].primary_node_id = ""]_vars

\* an append that added two nodes to a persisted graph of two has returned
C38_Witness ==
    \E w \in Writers :
        /\ pc[w] = "idle" /\ result[w].status = "ok"
        /\ result[w].nodes_added = 2
        /\ Len(PersistedNodes) = 4
        /\ result[w].primary_node_id = PersistedNodes[4].id

====
